---- MODULE Spec2Model ----
(***************************************************************************)
(* Model of the cortex capture foundation: the LLMFramePool coalescing     *)
(* history (llm_frame_pool.hpp), its SpscRing quick lane (spsc_ring.hpp)   *)
(* and the OperandMap frame signature (operand_map.hpp).                   *)
(*                                                                         *)
(* Times are integers counted in ticks of 1/TicksPerSec second.  64-bit    *)
(* and 32-bit words are kept as little-endian sequences of bytes, so that  *)
(* the arithmetic modulo 2^64 of the FNV-1a hash is exact.                 *)
(***************************************************************************)
EXTENDS Integers, Sequences, FiniteSets, TLC

(***************************************************************************)
(* Bounds of the model                                                     *)
(***************************************************************************)
\* last time stamp (in ticks) at which the capture thread still pushes
MaxTime == 3
\* largest gap, in ticks, between two consecutive pushes
MaxDt == 2
\* ticks per second (resolution of the model's clock)
TicksPerSec == 2
\* largest quick-lane capacity requested from the SpscRing constructor
MaxCapReq == 3
\* largest retention window / static grace (in ticks) given to a setter
MaxKnob == 1
\* number of setter calls after the construction
MaxKnobCalls == 1
\* largest window (in ticks) asked of snapshot_recent
MaxWindow == 2
\* largest budget, in megabytes, given to set_budget_mb
MaxBudgetMB == 1
\* largest frame rate given to the export
MaxFps == 3
\* largest dedupe pause / static reset (in ticks) of a tracker configuration
MaxPause == 2
\* largest --seconds given to main
MaxSeconds == 3
\* longest capture loop (in passes) whose frames are followed
MaxFrames == 6
\* longest capture loop (in passes) whose timing is followed
MaxSchedFrames == 4
\* longest time (in ticks) that a capture takes
MaxWork == 2
\* largest --static-sec (in ticks)
MaxStatic == 4
\* largest --static-timeout (in ticks)
MaxTimeout == 3
\* number of enqueue calls made on a CorrectionQueue
MaxEnqueues == 2
\* number of apply_all calls made on a CorrectionQueue
MaxApplies == 2
\* number of clear calls made on a CorrectionQueue
MaxClears == 1
\* number of calls made on an OrSwitch router
MaxRouterCalls == 5
\* number of tiles that the callers of a router name
MaxTiles == 2
\* number of add_with_cap and clear calls made on one accumulator
MaxAccOps == 4
\* largest weight given to add_with_cap
MaxWeight == 2
\* largest cap (max_accum_weight) of an accumulator
MaxCap == 2
\* largest number of tile workers of the engine
MaxThreads == 2
\* number of frames rendered by the engine
MaxRenders == 2
\* number of calls of update made on a detector
MaxDetectorCalls == 4
\* number of calls made on a tiler
MaxTilerCalls == 2
\* largest width and height, in pixels, of a frame handed to the tiler
MaxFrameSide == 3
\* largest width and height, in pixels, asked of a tile
MaxTileSide == 2
\* puts made on the cache, its keys, its largest limit, and the sizes of the
\* values: the hints given to put and sizeof(T)
MaxPuts == 3
MaxCacheKeys == 3
MaxCacheBytes == 4
MaxHint == 2
MaxSizeof == 3
\* threads that share a correction queue, and the calls they make on it
MaxQueueThreads == 2
MaxQueueCalls == 4
\* producers of an aggregator, the signals they send and the consume calls
MaxProducers == 2
MaxSignals == 2
MaxConsumes == 2
\* items given to parallel_map, the cores of the machine, and size_t taken
\* four bits wide
MaxItems == 4
MaxHw == 3
SizeMod == 16
\* the largest pool of workers, the threads that call it, the tasks they
\* submit and the worker threads started in all
MaxWorkers == 2
MaxCallers == 2
MaxTasks == 3
MaxSpawned == 3

(***************************************************************************)
(* Bytes and words                                                         *)
(***************************************************************************)
RECURSIVE BitXor(_, _)
\* bitwise exclusive or of two naturals (the ^ operator)
BitXor(a, b) ==
    IF a = 0 THEN b
    ELSE IF b = 0 THEN a
    ELSE (((a % 2) + (b % 2)) % 2) + 2 * BitXor(a \div 2, b \div 2)

RECURSIVE BitOr(_, _)
\* bitwise or of two naturals (the | operator)
BitOr(a, b) ==
    IF a = 0 THEN b
    ELSE IF b = 0 THEN a
    ELSE (IF (a % 2) = 1 \/ (b % 2) = 1 THEN 1 ELSE 0) + 2 * BitOr(a \div 2, b \div 2)

RECURSIVE ShiftRight(_, _)
\* x >> k on naturals
ShiftRight(x, k) == IF k = 0 \/ x = 0 THEN x ELSE ShiftRight(x \div 2, k - 1)

\* fnv64_offset = 1469598103934665603 = 0x14650FB0739D0383, least significant byte first
fnv64_offset == <<131, 3, 157, 115, 176, 15, 101, 20>>

\* low part 0x1B3 of the 64-bit FNV prime 0x100000001B3
fnv64_prime_low == 435

\* the high part of the FNV prime is 2^40: a shift by this many bytes
fnv64_prime_shift_bytes == 5

RECURSIVE MulPrimeFrom(_, _, _)
\* bytes i..8 of f * fnv64_prime modulo 2^64, with the carry into byte i
MulPrimeFrom(f, i, carry) ==
    IF i > 8 THEN <<>>
    ELSE LET term == f[i] * fnv64_prime_low
                     + (IF i > fnv64_prime_shift_bytes
                        THEN f[i - fnv64_prime_shift_bytes] ELSE 0)
                     + carry
         IN  <<(term % 256)>> \o MulPrimeFrom(f, i + 1, term \div 256)

\* one FNV-1a step: f ^= b; f *= fnv64_prime (modulo 2^64)
Fnv1aStep(f, b) ==
    MulPrimeFrom([f EXCEPT ![1] = BitXor(f[1], b)], 1, 0)

(***************************************************************************)
(* RawImage and OperandMap                                                 *)
(***************************************************************************)
\* RawImage::ok()
ok(img) ==
    /\ img.width # 0
    /\ img.height # 0
    /\ Len(img.bgra) = img.width * img.height * 4

\* a shared_ptr<RawImage> that holds nothing
NullImage == [null |-> TRUE, width |-> 0, height |-> 0, bgra |-> <<>>]

MkImage(w, h, bytes) == [null |-> FALSE, width |-> w, height |-> h, bgra |-> bytes]

\* the default-constructed OperandMap
EmptyOperandMap ==
    [sumB |-> 0, sumG |-> 0, sumR |-> 0, sumA |-> 0,
     xor32 |-> <<0, 0, 0, 0>>, fnv1a64 |-> <<0, 0, 0, 0, 0, 0, 0, 0>>,
     width |-> 0, height |-> 0]

RECURSIVE XorWords(_, _, _)
\* xor32 after the pixels i..n32 of the byte vector
XorWords(bgra, i, acc) ==
    IF 4 * i > Len(bgra) THEN acc
    ELSE XorWords(bgra, i + 1,
                  [k \in 1..4 |-> BitXor(acc[k], bgra[4 * (i - 1) + k])])

RECURSIVE FnvBytes(_, _, _)
\* the FNV-1a hash after the bytes i.. of the 32-bit words of the vector
FnvBytes(bgra, i, f) ==
    IF i > 4 * (Len(bgra) \div 4) THEN f
    ELSE FnvBytes(bgra, i + 1, Fnv1aStep(f, bgra[i]))

RECURSIVE ChannelSum(_, _, _)
\* sum of channel c (1 = B .. 4 = A) over the pixels i..npx
ChannelSum(img, c, i) ==
    IF i > img.width * img.height THEN 0
    ELSE img.bgra[4 * (i - 1) + c] + ChannelSum(img, c, i + 1)

\* sig::compute_operand_map
compute_operand_map(img) ==
    IF ~ok(img) THEN EmptyOperandMap
    ELSE [sumB |-> ChannelSum(img, 1, 1), sumG |-> ChannelSum(img, 2, 1),
          sumR |-> ChannelSum(img, 3, 1), sumA |-> ChannelSum(img, 4, 1),
          xor32 |-> XorWords(img.bgra, 1, <<0, 0, 0, 0>>),
          fnv1a64 |-> FnvBytes(img.bgra, 1, fnv64_offset),
          width |-> img.width, height |-> img.height]

\* sig::same_signature
same_signature(a, b) ==
    /\ a.width = b.width /\ a.height = b.height
    /\ a.sumB = b.sumB /\ a.sumG = b.sumG /\ a.sumR = b.sumR /\ a.sumA = b.sumA
    /\ a.xor32 = b.xor32 /\ a.fnv1a64 = b.fnv1a64

\* a frames_identical that trusts the image dimensions alone
frames_identical_dims_only(a, b, ma, mb) ==
    /\ ok(a) /\ ok(b)
    /\ a.width = b.width /\ a.height = b.height

\* a frames_identical that does not ask whether the frames are ok
frames_identical_unchecked(a, b, ma, mb) ==
    /\ same_signature(ma, mb)
    /\ a.width = b.width /\ a.height = b.height
    /\ Len(a.bgra) = Len(b.bgra)
    /\ \A i \in 1..Len(a.bgra) : a.bgra[i] = b.bgra[i]

\* sig::frames_identical: signatures first, then the byte compare
frames_identical(a, b, ma, mb) ==
    /\ ok(a) /\ ok(b)
    /\ same_signature(ma, mb)
    /\ a.width = b.width /\ a.height = b.height
    /\ Len(a.bgra) = Len(b.bgra)
    /\ \A i \in 1..Len(a.bgra) : a.bgra[i] = b.bgra[i]

(***************************************************************************)
(* SpscRing: the pure parts                                                *)
(***************************************************************************)
RECURSIVE BitAnd(_, _)
\* bitwise and of two naturals (the & operator)
BitAnd(a, b) ==
    IF a = 0 \/ b = 0 THEN 0
    ELSE (IF (a % 2) = 1 /\ (b % 2) = 1 THEN 1 ELSE 0) + 2 * BitAnd(a \div 2, b \div 2)

\* SpscRing::round_up_pow2 (the shifts by 8, 16 and 32 leave the small
\* capacities of the model unchanged and are applied all the same)
round_up_pow2(x) ==
    IF x < 2 THEN 2
    ELSE LET x0 == x - 1
             x1 == BitOr(x0, ShiftRight(x0, 1))
             x2 == BitOr(x1, ShiftRight(x1, 2))
             x3 == BitOr(x2, ShiftRight(x2, 4))
             x4 == BitOr(x3, ShiftRight(x3, 8))
             x5 == BitOr(x4, ShiftRight(x4, 16))
             x6 == BitOr(x5, ShiftRight(x5, 32))
         IN  x6 + 1

\* a full test that lets one item too many in
RingFull_off_by_one(next, tail, cap) == next - tail > cap + 1

\* SpscRing::push, the test `next - tail > cap_`
RingFull(next, tail, cap) == next - tail > cap

\* an empty test that looks one slot too far
RingEmpty_off_by_one(tail, head) == tail = head + 1

\* SpscRing::pop, the test `tail == head`
RingEmpty(tail, head) == tail = head

\* a push that stores its item before it finds the ring full
BufOnFull_clobber(buf, slot, v) == [buf EXCEPT ![slot] = v]

\* SpscRing::push on a full ring returns before it touches buf_
BufOnFull(buf, slot, v) == buf

(***************************************************************************)
(* LLMFramePool: frames and the pure parts of push                         *)
(***************************************************************************)
\* a default-constructed Frame
NullFrame ==
    [index |-> 0, tsec |-> 0, t_end |-> 0, run_len |-> 1,
     img |-> NullImage, sig |-> EmptyOperandMap]

\* an empty shared_ptr<Frame>
NullRef == [null |-> TRUE, frame |-> NullFrame]

\* std::make_shared<Frame>(fr): a copy of the frame behind a new handle
make_shared(fr) == [null |-> FALSE, frame |-> fr]

\* a frame built without its signature
NewFrame_no_sig(img, index, tsec, cur_sig) ==
    [index |-> index, tsec |-> tsec, t_end |-> tsec, run_len |-> 1,
     img |-> img, sig |-> EmptyOperandMap]

\* the frame built by push for a changed image (f.index .. f.sig)
NewFrame(img, index, tsec, cur_sig) ==
    [index |-> index, tsec |-> tsec, t_end |-> tsec, run_len |-> 1,
     img |-> img, sig |-> cur_sig]

\* an eviction that forgets the bytes of a frame it drops
FrontBytes_forgotten(fr) == 0

\* frames_.front().img ? frames_.front().img->bgra.size() : 0
FrontBytes(fr) == IF fr[1].img.null THEN 0 ELSE Len(fr[1].img.bgra)

Max(a, b) == IF a >= b THEN a ELSE b

\* an extension of the static run that forgets to count the push
ExtendRun_no_count(fr, tsec) ==
    [fr EXCEPT ![Len(fr)] = [@ EXCEPT !.t_end = tsec]]

\* push, identical branch: last.t_end = tsec; last.run_len++
ExtendRun(fr, tsec) ==
    [fr EXCEPT ![Len(fr)] = [@ EXCEPT !.t_end = tsec, !.run_len = @ + 1]]

RECURSIVE PopFrontToOne(_, _)
\* while (frames_.size() > 1) { total_bytes_ -= front bytes; pop_front(); }
PopFrontToOne(fr, total) ==
    IF Len(fr) > 1 THEN PopFrontToOne(Tail(fr), total - FrontBytes(fr))
    ELSE [frames |-> fr, total |-> total]

\* a collapse that waits until the grace is exceeded, not merely reached
StaticCollapse_strict(fr, total, tsec, since, grace) ==
    IF tsec - since > grace
    THEN LET c == PopFrontToOne(fr, total)
         IN  [frames |-> c.frames,
              total |-> IF c.frames = <<>> THEN 0
                        ELSE Len(c.frames[Len(c.frames)].img.bgra)]
    ELSE [frames |-> fr, total |-> total]

\* push, identical branch: collapse to one frame after the grace
StaticCollapse(fr, total, tsec, since, grace) ==
    IF tsec - since >= grace
    THEN LET c == PopFrontToOne(fr, total)
         IN  [frames |-> c.frames,
              total |-> IF c.frames = <<>> THEN 0
                        ELSE Len(c.frames[Len(c.frames)].img.bgra)]
    ELSE [frames |-> fr, total |-> total]

RECURSIVE EvictTime(_, _, _)
\* while (frames_.size() > 1 && frames_.front().t_end < cutoff_end) pop front
EvictTime(fr, total, cutoff_end) ==
    IF Len(fr) > 1 /\ fr[1].t_end < cutoff_end
    THEN EvictTime(Tail(fr), total - FrontBytes(fr), cutoff_end)
    ELSE [frames |-> fr, total |-> total]

RECURSIVE EvictBudget(_, _, _)
\* while (frames_.size() > 1 && total_bytes_ > budget) pop front
EvictBudget(fr, total, budget) ==
    IF Len(fr) > 1 /\ total > budget
    THEN EvictBudget(Tail(fr), total - FrontBytes(fr), budget)
    ELSE [frames |-> fr, total |-> total]

\* an eviction without the time-based pass
evict_budget_only(fr, total, latest, retention, budget) ==
    IF fr = <<>> THEN [frames |-> fr, total |-> total]
    ELSE EvictBudget(fr, total, budget)

\* LLMFramePool::evict_unlocked_keep_one
evict_unlocked_keep_one(fr, total, latest, retention, budget) ==
    IF fr = <<>> THEN [frames |-> fr, total |-> total]
    ELSE LET keep_sec == Max(0, retention)
             cutoff_end == latest - keep_sec
             a == EvictTime(fr, total, cutoff_end)
         IN  EvictBudget(a.frames, a.total, budget)

RECURSIVE WalkBack(_, _, _)
\* the reverse walk of snapshot_recent: the frames from position i down to
\* the first one that starts before the cutoff, newest first
WalkBack(fr, i, cutoff) ==
    IF i = 0 THEN <<>>
    ELSE IF fr[i].tsec >= cutoff THEN <<fr[i]>> \o WalkBack(fr, i - 1, cutoff)
    ELSE <<>>

\* std::reverse
Reverse(s) == [i \in 1..Len(s) |-> s[Len(s) + 1 - i]]

\* a snapshot that forgets to fall back on the newest frame
snapshot_recent_no_fallback(fr, latest, last_seconds) ==
    IF fr = <<>> THEN <<>>
    ELSE Reverse(WalkBack(fr, Len(fr), latest - Max(0, last_seconds)))

\* LLMFramePool::snapshot_recent
snapshot_recent(fr, latest, last_seconds) ==
    IF fr = <<>> THEN <<>>
    ELSE LET cutoff == latest - Max(0, last_seconds)
             out == WalkBack(fr, Len(fr), cutoff)
         IN  Reverse(IF out = <<>> THEN <<fr[Len(fr)]>> ELSE out)

\* std::round of the non-negative rational num / den (halves go up)
RoundDiv(num, den) == (2 * num + den) \div (2 * den)

\* an expansion that looks at the frame's own run only
expand_repeats_own_run(cur, has_nxt, nxt, fps) ==
    Max(1, RoundDiv(Max(0, cur.t_end - cur.tsec) * fps, TicksPerSec))

\* LLMFramePool::expand_repeats (nxt is read only when has_nxt)
expand_repeats(cur, has_nxt, nxt, fps) ==
    LET end == IF cur.t_end > cur.tsec THEN cur.t_end
               ELSE IF has_nxt THEN nxt.tsec ELSE cur.tsec
        span == Max(0, end - cur.tsec)
        n == RoundDiv(span * fps, TicksPerSec)
    IN  Max(1, n)

RECURSIVE Repeat(_, _)
Repeat(x, n) == IF n = 0 THEN <<>> ELSE <<x>> \o Repeat(x, n - 1)

RECURSIVE ExportFrom(_, _, _)
\* the write loop of export_recent_to_video from clip[i] on: the index of the
\* frame that each written BMP shows, in the order of writing
ExportFrom(clip, i, fps) ==
    IF i > Len(clip) THEN <<>>
    ELSE LET cur == clip[i]
             has_nxt == i + 1 <= Len(clip)
             nxt == IF has_nxt THEN clip[i + 1] ELSE NullFrame
             repeats == expand_repeats(cur, has_nxt, nxt, Max(1, fps))
         IN  (IF cur.img.null \/ ~ok(cur.img) THEN <<>>
              ELSE Repeat(cur.index, repeats))
             \o ExportFrom(clip, i + 1, fps)

(***************************************************************************)
(* The images the capture thread hands to the pool                         *)
(***************************************************************************)
ImgA == MkImage(1, 1, <<10, 20, 30, 255>>)
ImgB == MkImage(1, 1, <<11, 20, 30, 255>>)
ImgC == MkImage(2, 1, <<10, 20, 30, 255, 10, 20, 30, 255>>)
\* width and height set, the byte vector missing: ok() is false
ImgBad == MkImage(1, 1, <<>>)

ValidImages == {ImgA, ImgB, ImgC}
\* the images that differ in one byte only
SameSizeImages == {ImgA, ImgB}
\* the images that differ in size
MixedSizeImages == {ImgA, ImgC}
InvalidImages == {NullImage, ImgBad}

\* arguments of the setters, in ticks
KnobArgs == (0 - 1)..MaxKnob
\* arguments of snapshot_recent, in ticks
WindowArgs == (0 - 1)..MaxWindow
\* retention windows given to the constructor
RetentionArgs == {1, MaxTime + 1}

(***************************************************************************)
(* SceneActivityTracker (scene_activity_tracker.hpp)                       *)
(*                                                                         *)
(* Thresholds are kept in thousandths and a diff ratio as the pair of the  *)
(* changed and the sampled pixels, so that the comparisons are exact.      *)
(***************************************************************************)
\* two pixels side by side; ImgE differs from ImgC in the first pixel and
\* ImgF in both, by more than any channel threshold used here
ImgE == MkImage(2, 1, <<90, 20, 30, 255, 10, 20, 30, 255>>)
ImgF == MkImage(2, 1, <<90, 20, 30, 255, 90, 20, 30, 255>>)
TrackerImages == {ImgC, ImgE, ImgF}

\* last_high_time_ and dedupe_block_until_ of a new tracker: -1e9
never_high == 0 - 1000000000

\* SceneActivityConfig with its default thresholds, stride and channel threshold
SceneActivityConfig(pause, reset) ==
    [static_thr |-> 30, wake_thr |-> 50, dedupe_pause_sec |-> pause,
     static_reset_sec |-> reset, sample_stride |-> 4, channel_thr |-> 4]

\* the configurations given to the tracker: the default thresholds, a wide
\* middle band sampled at every pixel, and a wake threshold below the static one
TrackerConfigs ==
    {[SceneActivityConfig(pause, reset) EXCEPT
          !.static_thr = thr[1], !.wake_thr = thr[2], !.sample_stride = thr[3]] :
        pause \in 0..MaxPause, reset \in 0..MaxPause,
        thr \in {<<30, 50, 4>>, <<250, 750, 1>>, <<750, 250, 1>>}}

\* the default-constructed SceneActivityDecision
SceneActivityDecision ==
    [diff_ratio |-> [changed |-> 0, sampled |-> 1],
     is_static_scene |-> FALSE, is_scene_awake |-> FALSE, quiet_active |-> FALSE,
     dedupe_block |-> FALSE, allow_dedupe |-> TRUE, copilot_block |-> FALSE,
     seconds_in_static |-> 0, seconds_since_high |-> 0]

Abs(x) == IF x < 0 THEN 0 - x ELSE x

\* the multiples of stride below n: the rows or columns that are sampled
Strided(n, stride) == {k \in 0..(n - 1) : k % stride = 0}

\* sampled_diff_ratio: the changed and the sampled pixels (1/1 for frames
\* that cannot be compared, 0/1 when nothing is sampled)
sampled_diff_ratio(cur, prev, stride, channel_thr) ==
    IF ~ok(cur) \/ ~ok(prev) \/ cur.width # prev.width \/ cur.height # prev.height
    THEN [changed |-> 1, sampled |-> 1]
    ELSE LET st == Max(1, stride)
             thr == Max(0, channel_thr)
             pix == {y * cur.width + x : y \in Strided(cur.height, st),
                                         x \in Strided(cur.width, st)}
             differs(i) == \E ch \in 1..3 :
                               Abs(prev.bgra[i * 4 + ch] - cur.bgra[i * 4 + ch]) > thr
             changed == Cardinality({i \in pix : differs(i)})
         IN  IF pix = {} THEN [changed |-> 0, sampled |-> 1]
             ELSE [changed |-> changed, sampled |-> Cardinality(pix)]

\* SceneActivityTracker::SceneActivityTracker(cfg)
NewTracker(cfg) ==
    [cfg_ |-> cfg, scene_awake_ |-> FALSE, static_run_active_ |-> FALSE,
     static_start_ |-> 0, last_high_time_ |-> never_high,
     dedupe_block_until_ |-> never_high]

\* SceneActivityTracker::start_static_if_needed
start_static_if_needed(tr, tsec, force) ==
    IF ~tr.static_run_active_ \/ force
    THEN [tr EXCEPT !.static_run_active_ = TRUE, !.static_start_ = tsec]
    ELSE tr

\* an awake latch that is cleared as soon as one of the two waits is over
awake_after_static_either(tr, tsec) ==
    IF /\ tr.scene_awake_
       /\ \/ tsec - tr.static_start_ >= tr.cfg_.static_reset_sec
          \/ tsec - tr.last_high_time_ >= tr.cfg_.dedupe_pause_sec
    THEN FALSE
    ELSE tr.scene_awake_

\* update, the static branch: scene_awake_ after the test of lines 315-319
awake_after_static(tr, tsec) ==
    IF /\ tr.scene_awake_
       /\ tsec - tr.static_start_ >= tr.cfg_.static_reset_sec
       /\ tsec - tr.last_high_time_ >= tr.cfg_.dedupe_pause_sec
    THEN FALSE
    ELSE tr.scene_awake_

\* a block window that a mid-band frame extends too
block_until_after_mid_too(tr, is_high, is_mid, tsec) ==
    IF is_high \/ is_mid THEN tsec + tr.cfg_.dedupe_pause_sec
    ELSE tr.dedupe_block_until_

\* update, lines 324-330: dedupe_block_until_ after the frame
block_until_after(tr, is_high, is_mid, tsec) ==
    IF is_high THEN tsec + tr.cfg_.dedupe_pause_sec
    ELSE tr.dedupe_block_until_

\* the classification of a diff ratio against the thresholds (lines 309-311)
Classify(cfg, ratio) ==
    LET is_static == ratio.changed * 1000 <= cfg.static_thr * ratio.sampled
        is_high == ratio.changed * 1000 >= cfg.wake_thr * ratio.sampled
    IN  [is_static |-> is_static, is_high |-> is_high,
         is_mid |-> ~is_static /\ ~is_high]

\* SceneActivityTracker::update(cur, prev, tsec): the tracker after the call
\* and the decision returned (prev.null is the null pointer)
tracker_update(tr, cur, prev, tsec) ==
    IF prev.null \/ ~ok(prev) \/ ~ok(cur)
    THEN [tr |-> start_static_if_needed(tr, tsec, TRUE),
          d |-> [SceneActivityDecision EXCEPT !.is_static_scene = TRUE,
                                              !.is_scene_awake = FALSE]]
    ELSE LET ratio == sampled_diff_ratio(cur, prev, tr.cfg_.sample_stride,
                                         tr.cfg_.channel_thr)
             c == Classify(tr.cfg_, ratio)
             t0 == IF c.is_static THEN start_static_if_needed(tr, tsec, FALSE)
                   ELSE [tr EXCEPT !.static_run_active_ = FALSE]
             t1 == IF c.is_static
                   THEN [t0 EXCEPT !.scene_awake_ = awake_after_static(t0, tsec)]
                   ELSE t0
             t2 == [t1 EXCEPT
                      !.scene_awake_ = IF c.is_high \/ c.is_mid THEN TRUE ELSE @,
                      !.last_high_time_ = IF c.is_high THEN tsec ELSE @,
                      !.dedupe_block_until_ =
                          block_until_after(t1, c.is_high, c.is_mid, tsec)]
             block == tsec < t2.dedupe_block_until_
         IN  [tr |-> t2,
              d |-> [diff_ratio |-> ratio,
                     is_static_scene |-> c.is_static,
                     is_scene_awake |-> t2.scene_awake_,
                     quiet_active |-> c.is_mid,
                     dedupe_block |-> block,
                     allow_dedupe |-> ~block,
                     copilot_block |-> c.is_static /\ ~t2.scene_awake_,
                     seconds_in_static |->
                         IF c.is_static THEN tsec - t2.static_start_ ELSE 0,
                     seconds_since_high |-> tsec - t2.last_high_time_]]

\* a frame that was not compared with a previous one has no class
NoClass == [is_static |-> FALSE, is_high |-> FALSE, is_mid |-> FALSE]

\* the record of the last call of update: its time, whether the frames were
\* compared, the tracker before the call, the class of the frame, the
\* decision returned, and the times of the high-activity frames so far
NoUpdate ==
    [called |-> FALSE, t |-> 0, compared |-> FALSE,
     before |-> NewTracker(SceneActivityConfig(0, 0)), class |-> NoClass,
     d |-> SceneActivityDecision, highs |-> {}]

(***************************************************************************)
(* StaticActivityDetector (static_activity_detector.hpp)                   *)
(***************************************************************************)
\* StaticActivityConfig; the thresholds in thousandths
StaticActivityConfig(static_threshold, wake_threshold, freeze, stride) ==
    [static_threshold |-> static_threshold, wake_threshold |-> wake_threshold,
     freeze_streak_on_midband |-> freeze, sample_stride |-> stride,
     channel_threshold |-> 4]

\* the configurations given to the detector: the default thresholds and a
\* wide middle band sampled at every pixel, each with and without the freeze
DetectorConfigs ==
    {StaticActivityConfig(thr[1], thr[2], freeze, thr[3]) :
        thr \in {<<30, 50, 4>>, <<250, 750, 1>>}, freeze \in BOOLEAN}

\* the default-constructed ActivityDecision; the default diff_ratio is 1.0
ActivityDecision ==
    [diff_ratio |-> [changed |-> 1, sampled |-> 1], is_static |-> FALSE,
     is_high_activity |-> FALSE, is_mid_band |-> FALSE,
     gate_static_condition |-> FALSE, seconds_in_static_streak |-> 0]

\* StaticActivityDetector(cfg)
NewDetector(cfg) ==
    [cfg_ |-> cfg, last_ |-> NullImage, streak_active_ |-> FALSE, streak_start_ |-> 0]

\* StaticActivityDetector::reset_streak
reset_streak(d) == [d EXCEPT !.streak_active_ = FALSE, !.streak_start_ = 0]

\* StaticActivityDetector::start_or_continue_streak
start_or_continue_streak(d, tsec, force_new) ==
    IF ~d.streak_active_ \/ force_new
    THEN [d EXCEPT !.streak_active_ = TRUE, !.streak_start_ = tsec]
    ELSE d

\* StaticActivityDetector::classify
classify(cfg, diff, dec) ==
    IF diff.changed * 1000 <= cfg.static_threshold * diff.sampled
    THEN [dec EXCEPT !.is_static = TRUE, !.gate_static_condition = TRUE]
    ELSE IF diff.changed * 1000 >= cfg.wake_threshold * diff.sampled
    THEN [dec EXCEPT !.is_high_activity = TRUE]
    ELSE [dec EXCEPT !.is_mid_band = TRUE]

\* a detector that never holds its streak
holds_streak_never(cfg, dec) == FALSE

\* the test of line 120: the streak is held on this frame
holds_streak(cfg, dec) == dec.is_mid_band /\ cfg.freeze_streak_on_midband

\* StaticActivityDetector::update(current, tsec): the detector after the call
\* and the decision returned
detector_update(d, current, tsec) ==
    IF d.last_.null \/ ~ok(d.last_) \/ ~ok(current)
    THEN [d |-> [start_or_continue_streak(d, tsec, TRUE) EXCEPT !.last_ = current],
          dec |-> [ActivityDecision EXCEPT
                      !.diff_ratio = [changed |-> 0, sampled |-> 1],
                      !.is_static = TRUE, !.gate_static_condition = TRUE]]
    ELSE LET diff == sampled_diff_ratio(current, d.last_, d.cfg_.sample_stride,
                                        d.cfg_.channel_threshold)
             dec == classify(d.cfg_, diff, [ActivityDecision EXCEPT !.diff_ratio = diff])
             d1 == IF dec.is_static THEN start_or_continue_streak(d, tsec, FALSE)
                   ELSE IF holds_streak(d.cfg_, dec) THEN d
                   ELSE reset_streak(d)
         IN  [d |-> [d1 EXCEPT !.last_ = current],
              dec |-> [dec EXCEPT !.seconds_in_static_streak =
                          IF d1.streak_active_ THEN tsec - d1.streak_start_ ELSE 0]]

\* a detector, the number of calls of update made on it and the last one:
\* its time, whether the frame was compared, the detector before the call
\* and the decision returned
DetectorWith(cfg) ==
    [d |-> NewDetector(cfg), calls |-> 0,
     last |-> [t |-> 0, compared |-> FALSE, before |-> NewDetector(cfg),
               dec |-> ActivityDecision]]

(***************************************************************************)
(* OperationCache (part_010)                                               *)
(***************************************************************************)
\* OperationCache(max_bytes)
NewOperationCache(max_bytes) ==
    [entries_ |-> << >>, used_bytes_ |-> 0, max_bytes_ |-> max_bytes]

\* the keys a cache is asked about
CacheKeys == 1..MaxCacheKeys

\* the keys stored
Stored(e) == DOMAIN e

\* the sequences a sort of the entries by ts can give: entries of one time
\* stamp come in any order
OldestFirst(e) ==
    {o \in [1..Cardinality(Stored(e)) -> Stored(e)] :
        /\ \A i, j \in DOMAIN o : i # j => o[i] # o[j]
        /\ \A i, j \in DOMAIN o : i < j => e[o[i]].ts <= e[o[j]].ts}

\* entries_.erase(key)
erase(e, key) == [k \in Stored(e) \ {key} |-> e[k]]

RECURSIVE purge(_, _)
\* for (auto& kv : v) { if (used_bytes_ <= max_bytes_) break;
\*                      used_bytes_ -= kv.second.bytes; entries_.erase(kv.first); }
purge(c, v) ==
    IF v = << >> \/ c.used_bytes_ <= c.max_bytes_ THEN c
    ELSE purge([c EXCEPT !.used_bytes_ = @ - c.entries_[Head(v)].bytes,
                         !.entries_ = erase(@, Head(v))],
               Tail(v))

\* OperationCache::evict_if_needed, v being the sorted copy of the entries
evict_if_needed(c, v) == IF c.used_bytes_ <= c.max_bytes_ THEN c ELSE purge(c, v)

\* size_t sz = bytes_hint ? bytes_hint : sizeof(T)
put_size(bytes_hint, size_of) == IF bytes_hint # 0 THEN bytes_hint ELSE size_of

\* entries_[key] = OpCacheEntry{now, sz, v}
store(e, key, now, sz) ==
    [k \in Stored(e) \cup {key} |-> IF k = key THEN [ts |-> now, bytes |-> sz] ELSE e[k]]

\* the locked block of put: entries_[key] = ...; used_bytes_ += sz
put_locked(c, key, now, sz) ==
    [c EXCEPT !.entries_ = store(@, key, now, sz), !.used_bytes_ = @ + sz]

\* a cache, the steady clock, and the last call made on it
CacheWith(c) ==
    [c |-> c, clk |-> 0, puts |-> 0,
     last |-> [kind |-> "none", key |-> 0, sz |-> 0, overwrote |-> FALSE, purged |-> 0]]

(***************************************************************************)
(* Filters, recorder names and the clock (filters.hpp, frame_recorder.hpp) *)
(***************************************************************************)
\* a pixel that a grayscale does not leave alone, and one that it does
ImgD == MkImage(1, 1, <<90, 20, 30, 255>>)

\* static_cast<int>(0.299 * r + 0.587 * g + 0.114 * b + 0.5)
Luma(b, g, r) == (299 * r + 587 * g + 114 * b + 500) \div 1000

\* clamp_u8
clamp_u8(v) == IF v < 0 THEN 0 ELSE IF v > 255 THEN 255 ELSE v

\* apply_grayscale, and the grayscale lambda of the correction queue: the
\* three colour bytes of every pixel become its luma, alpha stays
apply_grayscale(img) ==
    [img EXCEPT !.bgra =
        [i \in 1..Len(img.bgra) |->
            LET px == ((i - 1) \div 4) * 4
            IN  IF i - px = 4 THEN img.bgra[i]
                ELSE clamp_u8(Luma(img.bgra[px + 1], img.bgra[px + 2],
                                   img.bgra[px + 3]))]]

\* corrections.apply_all followed by apply_filters_inplace, for --grayscale
\* (the only correction and filter that main is given here)
apply_all(img, grayscale) ==
    IF grayscale THEN apply_grayscale(apply_grayscale(img)) ELSE img

RECURSIVE Digits(_, _)
\* the decimal digits of index, with zeros in front up to the width pad
Digits(index, pad) ==
    IF pad <= 0 /\ index = 0 THEN <<>>
    ELSE Append(Digits(index \div 10, pad - 1), index % 10)

\* make_numbered(base, index, ".bmp", 6): the digits between "base_" and ".bmp"
make_numbered(index, pad) == Digits(index, pad)

\* a sleep that returns at once
sleep_until_no_wait(clk, deadline) == clk

\* std::this_thread::sleep_until(deadline) called at time clk: the time at
\* which it returns
sleep_until(clk, deadline) == Max(clk, deadline)

\* std::chrono::microseconds(1'000'000 / fps), in ticks
frame_interval(fps) == TicksPerSec \div fps

\* the frame rates whose period is a whole number of ticks
FrameRates == {r \in 1..TicksPerSec : TicksPerSec % r = 0}

(***************************************************************************)
(* main and wait_for_static_scene: their locals (static_frame_generator.cpp,*)
(* static_scene_detector.hpp)                                              *)
(***************************************************************************)
\* dedupe_pause_sec and static_reset_sec of main, in seconds
default_pause_sec == 15
default_reset_sec == 15

\* the tracker that main builds (line 405)
MainTracker ==
    NewTracker(SceneActivityConfig(default_pause_sec * TicksPerSec,
                                   default_reset_sec * TicksPerSec))

\* main after its flags are parsed (lines 268-339): fps <= 0 becomes 1 and
\* total_frames = (seconds <= 0) ? 1 : max(1, seconds * fps)
MainFlags(fps, seconds, require_static, static_sec, static_timeout, static_tolerant, adaptive_enabled, grayscale, recording) ==
    LET rate == IF fps <= 0 THEN 1 ELSE fps
    IN  [pc |-> IF require_static THEN "gate" ELSE "capture",
         exit_code |-> 0 - 1,
         fps |-> rate,
         total_frames |-> IF seconds <= 0 THEN 1 ELSE Max(1, seconds * rate),
         require_static |-> require_static,
         static_sec |-> static_sec,
         static_timeout |-> static_timeout,
         static_tolerant |-> static_tolerant,
         adaptive_enabled |-> adaptive_enabled,
         grayscale |-> grayscale,
         recording |-> recording]

\* the default-constructed StaticSceneCheckResult; stable_seconds is kept as
\* the streak and the frame rate it is divided by
StaticSceneCheckResult ==
    [ok |-> FALSE, stable_seconds |-> [streak |-> 0, fps |-> 1],
     frames_observed |-> 0, identical_streak |-> 0,
     signature |-> EmptyOperandMap, frame |-> NullImage, message |-> ""]

\* std::max(1, static_cast<int>(min_stable_sec * fps_hint)), min_stable_sec
\* given in ticks
needed_streak(min_stable_sec, fps_hint) ==
    Max(1, (min_stable_sec * fps_hint) \div TicksPerSec)

\* the locals of wait_for_static_scene when it reaches its loop (lines 34-48)
\* at time t0; `pass` is the history of the last pass of the loop and `run`
\* the number of equal captures in a row
GateStart(fps_hint, min_stable_sec, timeout_sec, tolerant, t0) ==
    LET rate == IF fps_hint <= 0 THEN 1 ELSE fps_hint
    IN  [pc |-> "loop", fps_hint |-> rate, min_stable_sec |-> min_stable_sec,
         timeout_sec |-> timeout_sec, tolerant |-> tolerant,
         interval |-> frame_interval(rate), t0 |-> t0, next |-> t0,
         have_prev |-> FALSE, prev |-> NullImage, prev_map |-> EmptyOperandMap,
         streak |-> 0, needed |-> needed_streak(min_stable_sec, rate),
         out |-> StaticSceneCheckResult,
         pass |-> [n |-> 0, start |-> t0, captured |-> FALSE, identical |-> FALSE,
                   before |-> 0],
         run |-> 0]

\* a gate that is not called (--no-static-gate)
NoGate == [GateStart(1, 0, 0, FALSE, 0) EXCEPT !.pc = "off"]

\* the locals of the capture loop before its first pass (lines 416-447)
LoopStart(t0) ==
    [f |-> 0, have_prev |-> FALSE, prev |-> NullImage, prev_sig |-> EmptyOperandMap,
     skipped_dupes |-> 0, frames_captured |-> 0, frames_unique |-> 0,
     frames_duplicates |-> 0, quiet_frames |-> 0, static_frames |-> 0,
     dedupe_block_frames |-> 0, start |-> t0, next_time |-> t0]

(***************************************************************************)
(* CorrectionQueue (correction_queue.hpp) and the transforms put into it   *)
(***************************************************************************)
\* apply_bc(img, brightness, 1.0): every colour byte plus add =
\* static_cast<int>(brightness * 255), clamped; the alpha byte stays
apply_bc(img, add) ==
    [img EXCEPT !.bgra = [i \in 1..Len(img.bgra) |->
        IF i % 4 = 0 THEN img.bgra[i] ELSE clamp_u8(img.bgra[i] + add)]]

\* the brightness step of the transform "bright", in bytes
bright_add == 200

\* the std::function objects handed to the queue: an empty one and two
\* transforms that do not commute
NullFn == "null"
Transforms == {"gray", "bright"}

\* f(img) for a transform of the queue
RunFn(f, img) ==
    IF f = "gray" THEN apply_grayscale(img)
    ELSE IF f = "bright" THEN apply_bc(img, bright_add)
    ELSE img

RECURSIVE RunAll(_, _)
\* for (auto& f : fns) f(img): the entries of fns run one after the other
RunAll(fns, img) ==
    IF fns = <<>> THEN img ELSE RunAll(Tail(fns), RunFn(fns[1].f, img))

\* a run that starts with the one-shot transforms
run_order_oneshot_first(local_persist, local_oneshot) == local_oneshot \o local_persist

\* apply_all, lines 933-939: the persistent copies run first, then the
\* drained one-shots
run_order(local_persist, local_oneshot) == local_persist \o local_oneshot

\* a clear that leaves the queue as it is
clear_nothing(q) == q

\* CorrectionQueue::clear
clear(q) == [q EXCEPT !.persistent_ = <<>>, !.oneshot_ = <<>>, !.dirty_ = FALSE]

\* a swap that leaves the one-shot transforms in the queue
oneshot_after_swap_kept(oneshot) == oneshot

\* oneshot_ after local_oneshot.swap(oneshot_), local_oneshot being empty
oneshot_after_swap(oneshot) == <<>>

\* an apply_all that is not running
NoApply ==
    [pc |-> "idle", img |-> NullImage, before |-> NullImage, began |-> 0, snap |-> 0,
     local_persist |-> <<>>, local_oneshot |-> <<>>]

\* a CorrectionQueue after its construction, the thread inside apply_all and
\* the history of the calls made on the queue
NewQueue ==
    [persistent_ |-> <<>>, oneshot_ |-> <<>>, dirty_ |-> FALSE,
     app |-> NoApply, enqueues |-> 0, applies |-> 0, history |-> <<>>]

\* the record of a call in the history of the queue
QueueCall(kind, id, f) ==
    [kind |-> kind, id |-> id, f |-> f, began |-> 0, snap |-> 0, ran |-> <<>>,
     ret |-> FALSE, before |-> NullImage, after |-> NullImage]

(***************************************************************************)
(* CorrectionQueue shared by several threads (part_003)                    *)
(***************************************************************************)
\* the threads that call the queue
QueueThreads == 1..MaxQueueThreads

\* no thread holds mu_
NoThread == 0

\* a thread outside every call
ThreadIdle ==
    [pc |-> "idle", call |-> 0, id |-> 0, oneshot |-> FALSE, empty |-> FALSE,
     local_persist |-> << >>, local_oneshot |-> << >>]

\* an apply_all that takes the queue for empty when it holds no one-shot
apply_finds_empty_oneshot_only(persistent, oneshot) == oneshot = << >>

\* apply_all, line 921: persistent_.empty() && oneshot_.empty()
apply_finds_empty(persistent, oneshot) == persistent = << >> /\ oneshot = << >>

\* a CorrectionQueue after its construction, its mutex, the threads that
\* call it, and the history: the enqueues that returned, the transforms
\* each apply_all ran, and the transforms of returned enqueues that were in
\* the queue when a fast path returned
NewSharedQueue ==
    [persistent_ |-> << >>, oneshot_ |-> << >>, dirty_ |-> FALSE, mu_ |-> NoThread,
     th |-> [t \in QueueThreads |-> ThreadIdle],
     calls |-> 0, oneshots |-> {}, completed |-> {}, ran |-> {}, passed_over |-> {},
     fast |-> 0]

(***************************************************************************)
(* OrSwitch as an aggregator (or_switch.hpp, part_011)                     *)
(***************************************************************************)
\* the two builds of the aggregator: with std::atomic wait and notify, or
\* with the condition variable cv_ and its mutex cv_m_
Builds == {"atomic_wait", "condvar"}

\* the producers, and the bit each one signals (wid % 64)
Producers == 1..MaxProducers
Consumer == 0
Nobody == 0 - 1

\* a signal that overwrites the mask with its bit
fetch_or_overwrites(mask, bit) == {bit}

\* mask_.fetch_or(bit): the mask as a set of bit positions
fetch_or(mask, bit) == mask \cup {bit}

\* if (prev == 0): the producer that finds the mask empty notifies
signal_notifies(prev) == prev = {}

\* a thread of the aggregator outside every call
AggThreadIdle == [pc |-> "idle", kind |-> "none", idx |-> 0, prev |-> {}, ret |-> {}]

\* an OrSwitch after its construction, the threads that call it and the
\* history: the bits signalled and not yet returned, the calls made
NewAggregator(build) ==
    [build |-> build, mask_ |-> {}, cv_m_ |-> Nobody, blocked |-> FALSE,
     prod |-> [p \in Producers |-> AggThreadIdle], cons |-> AggThreadIdle,
     owed |-> {}, signals |-> 0, consumes |-> 0, returned |-> 0]

(***************************************************************************)
(* OrSwitch as a router (or_switch.hpp)                                    *)
(***************************************************************************)
\* RouterConfig; epsilon is far below the resolution of the amplitudes of
\* this model, where two amplitudes are equal or at least 1/3 apart
RouterConfig(k_percent, frames_required, min_seconds, allow_skip_route) ==
    [epsilon |-> 0, k_percent |-> k_percent,
     calibration_frames_required |-> frames_required,
     calibration_min_seconds |-> min_seconds,
     allow_skip_route |-> allow_skip_route]

\* the value that ensure_capacity fills new entries of last_change_ with
fill_percent == 100

\* OrSwitch::reset_calibration at time t
reset_calibration(r, t) ==
    [r EXCEPT !.frames_seen_ = 0, !.started_ = t, !.calibrated_ = FALSE]

\* OrSwitch::OrSwitch(cfg) at time t
NewRouter(cfg, t) ==
    [cfg_ |-> cfg, last_change_ |-> <<>>, frames_seen_ |-> 0, started_ |-> t,
     calibrated_ |-> FALSE]

\* OrSwitch::begin_frame at time t
begin_frame(r, t) ==
    IF r.calibrated_ THEN r
    ELSE LET seen == r.frames_seen_ + 1
         IN  [r EXCEPT
                !.frames_seen_ = seen,
                !.calibrated_ =
                    /\ seen >= r.cfg_.calibration_frames_required
                    /\ t - r.started_ >= r.cfg_.calibration_min_seconds]

\* OrSwitch::ensure_capacity: last_change_.resize(n, 100.0)
ensure_capacity(last_change, n) ==
    IF Len(last_change) < n
    THEN last_change \o [i \in 1..(n - Len(last_change)) |-> fill_percent]
    ELSE last_change

\* OrSwitch::update_tile_change; tile_index counts from 0
update_tile_change(r, tile_index, percent_changed) ==
    [r EXCEPT !.last_change_ =
        [ensure_capacity(@, tile_index + 1) EXCEPT ![tile_index + 1] = percent_changed]]

\* a skip test that does not wait for the calibration
skip_eligible_uncalibrated(r, k) == r.cfg_.allow_skip_route /\ k = 0

\* the test of line 75
skip_eligible(r, k) == r.cfg_.allow_skip_route /\ k = 0 /\ r.calibrated_

\* the route taken for a tile whose last change is k percent (lines 73-80)
route_for(r, k) ==
    IF k <= r.cfg_.k_percent
    THEN (IF skip_eligible(r, k) THEN "Skip" ELSE "CPU")
    ELSE "GPU"

\* OrSwitch::decide
decide(r, tile_index) ==
    IF tile_index >= Len(r.last_change_) THEN "CPU"
    ELSE route_for(r, r.last_change_[tile_index + 1])

\* the percentages that callers report for a tile
Percents == {0, 5, 50, 100}

\* the router configurations looked at: K = 5 percent, skip routing allowed
\* or not, calibration over up to two frames and up to one tick
RouterConfigs ==
    {RouterConfig(5, n, sec, skip) : n \in 1..2, sec \in 0..1, skip \in BOOLEAN}

\* no call made on the router yet
NoRouterCall == [kind |-> "none", tile |-> 0, route |-> "CPU", percent |-> 0]

(***************************************************************************)
(* RGBWAccumulator (static_frame_parallel.hpp); sums are exact fractions   *)
(***************************************************************************)
RECURSIVE GCD(_, _)
\* greatest common divisor of two naturals
GCD(a, b) == IF b = 0 THEN a ELSE GCD(b, a % b)

\* the fraction n / d in lowest terms, d > 0
Frac(n, d) ==
    LET g == GCD(Abs(n), d)
    IN  IF g = 0 THEN [n |-> 0, d |-> 1] ELSE [n |-> n \div g, d |-> d \div g]

\* sum of two fractions, product and quotient of a fraction and a whole number
FracAdd(p, q) == Frac(p.n * q.d + q.n * p.d, p.d * q.d)
FracMul(p, k) == Frac(p.n * k, p.d)
FracDiv(p, k) == Frac(p.n, p.d * k)

\* a > b for two fractions
FracGt(p, q) == p.n * q.d > q.n * p.d

\* |a - b| for two fractions
FracDist(p, q) == Frac(Abs(p.n * q.d - q.n * p.d), p.d * q.d)

\* CosmicPixel(red, green, blue, 1)
CosmicPixel(red, green, blue) == [red |-> red, green |-> green, blue |-> blue]

\* RGBWAccumulator{}
NewAccumulator == [r |-> Frac(0, 1), g |-> Frac(0, 1), b |-> Frac(0, 1), w |-> 0]

\* RGBWAccumulator::to_pixel
to_pixel(a) ==
    IF a.w = 0 THEN CosmicPixel(Frac(0, 1), Frac(0, 1), Frac(0, 1))
    ELSE CosmicPixel(FracDiv(a.r, a.w), FracDiv(a.g, a.w), FracDiv(a.b, a.w))

\* a cap test that never fires
over_cap_never(w, max_w_cap) == FALSE

\* the test of line 27
over_cap(w, max_w_cap) == w > max_w_cap

\* RGBWAccumulator::add_with_cap for a pixel of whole-number channels
add_with_cap(a, p, weight, max_w_cap) ==
    LET sum == [r |-> FracAdd(a.r, Frac(p.red * weight, 1)),
                g |-> FracAdd(a.g, Frac(p.green * weight, 1)),
                b |-> FracAdd(a.b, Frac(p.blue * weight, 1)),
                w |-> a.w + weight]
        avg == to_pixel(sum)
    IN  IF over_cap(sum.w, max_w_cap)
        THEN [r |-> FracMul(avg.red, max_w_cap), g |-> FracMul(avg.green, max_w_cap),
              b |-> FracMul(avg.blue, max_w_cap), w |-> max_w_cap]
        ELSE sum

\* RGBWAccumulator::clear
accumulator_clear(a) == NewAccumulator

\* the pixels added to an accumulator
SamplePixels == {CosmicPixel(0, 0, 0), CosmicPixel(3, 0, 0), CosmicPixel(3, 3, 3)}

(***************************************************************************)
(* StaticFrameParallel (static_frame_parallel.hpp) and its tiler           *)
(***************************************************************************)
\* Min of two numbers
Min(a, b) == IF a <= b THEN a ELSE b

\* a tile that is not clipped at the edge of the frame
tile_end_unclipped(frame, start, size) == start + size

\* std::min(fw_, x0 + tw_): the exclusive end of a tile, clipped at the edge
tile_end(frame, start, size) == Min(frame, start + size)

\* QuadArrayManager::build_tiles: the tiles in row-major order
build_tiles(fw, fh, tw, th) ==
    IF fw = 0 \/ fh = 0 THEN <<>>
    ELSE LET tx == (fw + tw - 1) \div tw
             ty == (fh + th - 1) \div th
         IN  [i \in 1..(tx * ty) |->
                LET x0 == ((i - 1) % tx) * tw
                    y0 == ((i - 1) \div tx) * th
                IN  [index |-> i - 1, x0 |-> x0, y0 |-> y0,
                     x1 |-> tile_end(fw, x0, tw), y1 |-> tile_end(fh, y0, th)]]

\* QuadArrayManager{}: the tiler before configure
NewQuadArrayManager ==
    [fw_ |-> 0, fh_ |-> 0, tw_ |-> 32, th_ |-> 32, tx_ |-> 0, ty_ |-> 0, tiles_ |-> <<>>]

\* QuadArrayManager::configure, build_tiles included
configure(q, frame_w, frame_h, tile_w, tile_h) ==
    LET tw == Max(1, tile_w)
        th == Max(1, tile_h)
        T == build_tiles(frame_w, frame_h, tw, th)
    IN  [fw_ |-> frame_w, fh_ |-> frame_h, tw_ |-> tw, th_ |-> th,
         tx_ |-> IF frame_w = 0 \/ frame_h = 0 THEN 0 ELSE (frame_w + tw - 1) \div tw,
         ty_ |-> IF frame_w = 0 \/ frame_h = 0 THEN 0 ELSE (frame_h + th - 1) \div th,
         tiles_ |-> T]

\* size_t(-1), the index of no tile
NoTile == -1

\* QuadArrayManager::tile_index_from_xy
tile_index_from_xy(q, x, y) ==
    IF x >= q.fw_ \/ y >= q.fh_ THEN NoTile
    ELSE (y \div q.th_) * q.tx_ + (x \div q.tw_)

\* the tiler, the number of calls made on it and the last one
NewTiler ==
    [q |-> NewQuadArrayManager, calls |-> 0,
     last |-> [kind |-> "none", x |-> 0, y |-> 0, ret |-> NoTile]]

\* the cells y * width_ + x of a tile, counted from 0
TileCells(R, width) ==
    {y * width + x : x \in R.x0..(R.x1 - 1), y \in R.y0..(R.y1 - 1)}

\* StaticFrameParallel::amplitude_of
amplitude_of(p) == Frac(Abs(p.red) + Abs(p.green) + Abs(p.blue), 3)

\* StaticFrameParallel::gt_eps, eps a whole number
gt_eps(a, b, eps) == FracGt(FracDist(a, b), Frac(eps, 1))

\* TileChangeStats::percent_changed; exact for tiles of 1, 2 or 4 pixels
percent_changed(changed_pixels, total_pixels) ==
    IF total_pixels # 0 THEN (100 * changed_pixels) \div total_pixels ELSE 100

\* StaticFrameParallel::Config, the sampling left out
EngineConfig(tile_w, tile_h, threads, router, max_accum_weight) ==
    [tile_w |-> tile_w, tile_h |-> tile_h, threads |-> threads, router |-> router,
     max_accum_weight |-> max_accum_weight]

\* a tile worker that has not been started, or has left its loop
NoWorker == [pc |-> "done", ti |-> 0, percent |-> 0]

\* FrameParallelResult of no frame
NoResult == [pixels |-> <<>>, tile_dirty_mask |-> <<>>, calibration_complete |-> FALSE]

\* StaticFrameParallel(cfg) followed by set_resolution(w, h) at time t; cells
\* are kept in sequences whose entry i + 1 is cell i
NewEngine(cfg, w, h, t) ==
    LET T == build_tiles(w, h, Max(1, cfg.tile_w), Max(1, cfg.tile_h))
    IN  [cfg_ |-> cfg, width_ |-> w, height_ |-> h, initialized_ |-> TRUE,
         tiles_ |-> T,
         router_ |-> reset_calibration(NewRouter(cfg.router, t), t),
         accum_ |-> [i \in 1..(w * h) |-> NewAccumulator],
         prev_amplitude_ |-> [i \in 1..(w * h) |-> Frac(0, 1)],
         curr_amplitude_ |-> [i \in 1..(w * h) |-> Frac(0, 1)],
         tile_dirty_ |-> [i \in 1..Len(T) |-> 1],
         pc |-> "idle", next_tile |-> 0, local_dirty |-> <<>>, samples |-> <<>>,
         workers |-> [k \in 1..Max(1, cfg.threads) |-> NoWorker],
         out |-> NoResult,
         renders |-> 0, processed |-> [i \in 1..Len(T) |-> {}],
         visits |-> [i \in 1..Len(T) |-> 0],
         percents |-> [i \in 1..Len(T) |-> 0], routes |-> [i \in 1..Len(T) |-> "CPU"],
         joined_accum |-> <<>>, begun_prev |-> <<>>, begun_dirty |-> <<>>,
         joined |-> TRUE, raced |-> FALSE, lost |-> FALSE]

\* an engine that has nothing to render
NoEngine == NewEngine(EngineConfig(1, 1, 1, RouterConfig(5, 1, 0, TRUE), 1), 0, 0, 0)

\* the sampled pixels of the generator, averaged over the samples of a pixel
EnginePixels == {CosmicPixel(0, 0, 0), CosmicPixel(3, 3, 3)}

(***************************************************************************)
(* Frames handed to the signature functions                                *)
(***************************************************************************)
\* the byte values tried in every position of a pixel
SigBytes == {0, 1, 255}

\* every frame of one pixel over SigBytes, one frame of two pixels and the
\* frames that are not ok
SigImages ==
    {MkImage(1, 1, <<b, g, r, a>>) : b \in SigBytes, g \in SigBytes,
                                     r \in SigBytes, a \in SigBytes}
        \cup {ImgC, NullImage, ImgBad}

\* no comparison made yet
NoCompare ==
    [called |-> FALSE, a |-> NullImage, b |-> NullImage, ma |-> EmptyOperandMap,
     mb |-> EmptyOperandMap, identical |-> FALSE, same |-> FALSE]

(***************************************************************************)
(* QuadArrayManager::parallel_map (part_015, quad_array_manager.hpp)       *)
(***************************************************************************)
\* arithmetic of size_t
wrap(x) == x % SizeMod

\* the items of the container and the function mapped over them
data(i) == 10 + i
map_fn(x) == 2 * x + 1

\* the options that decide the number of threads
MapOptions(threads, min_tile_threads, keep_free_cores, adaptive_threads, min_items_for_parallel, target_items_per_thread) ==
    [threads |-> threads, min_tile_threads |-> min_tile_threads,
     keep_free_cores |-> keep_free_cores, adaptive_threads |-> adaptive_threads,
     min_items_for_parallel |-> min_items_for_parallel,
     target_items_per_thread |-> target_items_per_thread]

\* QuadArrayManager::decide_threads on a machine of hw cores
decide_threads(N, opts, hw) ==
    LET base == IF opts.keep_free_cores > 0 /\ hw > opts.keep_free_cores
                THEN hw - opts.keep_free_cores
                ELSE IF opts.keep_free_cores >= hw THEN 1 ELSE hw
        T0 == IF opts.threads > 0 THEN opts.threads ELSE base
        T1 == IF T0 > 1 THEN Max(T0, Max(1, opts.min_tile_threads)) ELSE T0
        T2 == Min(T1, hw)
        by_size == (N + opts.target_items_per_thread - 1) \div opts.target_items_per_thread
        T3 == IF /\ opts.adaptive_threads
                 /\ N >= opts.min_items_for_parallel
                 /\ opts.target_items_per_thread > 0
              THEN Max(1, Min(hw, Min(Max(Max(1, opts.min_tile_threads), by_size), base)))
              ELSE T2
    IN  Max(1, T3)

\* the thread count of the header quad_array_manager.hpp: max(1, opts.threads)
threads_of_header(threads) == Max(1, threads)

\* const size_t chunks = (N + chunk - 1) / chunk
chunk_count(N, chunk) == wrap(N + chunk - 1) \div chunk

\* const size_t chunk = opts.chunk_size_hint ? opts.chunk_size_hint
\*                                           : max(1, (N + T - 1) / T)
chunk_size(N, T, chunk_size_hint) ==
    IF chunk_size_hint # 0 THEN chunk_size_hint ELSE Max(1, wrap(N + T - 1) \div T)

\* Slot{}: ready, start, end, partial
NewSlot == [ready |-> 0, start |-> 0, end |-> 0, partial |-> << >>]

\* no call of parallel_map yet
NoMap ==
    [pc |-> "idle", N |-> 0, T |-> 0, chunk |-> 0, chunks |-> 0, slots |-> << >>,
     mask_ |-> {}, produced |-> 0, w |-> << >>, next_emit |-> 0, c |-> 0,
     out |-> << >>, progress |-> << >>, mapped |-> << >>]

\* the serial path: every item mapped in order, one report of progress
map_serial(N) ==
    [NoMap EXCEPT !.pc = "returned", !.N = N, !.T = 1,
                  !.out = [i \in 0..(N - 1) |-> map_fn(data(i))],
                  !.progress = <<N>>,
                  !.mapped = [i \in 0..(N - 1) |-> 1]]

\* the parallel path up to the start of the workers and out.resize(N)
map_parallel(N, T, chunk_size_hint) ==
    LET chunk == chunk_size(N, T, chunk_size_hint)
        chunks == chunk_count(N, chunk)
    IN  [NoMap EXCEPT
            !.pc = "wait", !.N = N, !.T = T, !.chunk = chunk, !.chunks = chunks,
            !.slots = [c \in 0..(chunks - 1) |-> NewSlot],
            !.w = [wid \in 0..(T - 1) |->
                      [pc |-> IF wid < chunks THEN "map" ELSE "done", c |-> wid]],
            !.out = [i \in 0..(N - 1) |-> 0],
            !.mapped = [i \in 0..(N - 1) |-> 0]]

(***************************************************************************)
(* WorkerPool (worker_pool.hpp)                                            *)
(***************************************************************************)
\* the threads that call submit from outside the pool
Callers == 1..MaxCallers

\* a worker thread not started, a task not submitted, a caller at rest
NoThreadYet == [pc |-> "none", job |-> 0, child |-> 0]
NoTask == [submitted |-> FALSE, inside |-> 0, runs |-> 0, done |-> FALSE, returned |-> FALSE]
CallerIdle == [pc |-> "idle", task |-> 0]

\* WorkerPool(max_workers), the threads around it, and the history of the
\* tasks: where each was submitted from, how often it was run, whether its
\* future is ready and whether its submit has returned
NewWorkerPool(max_workers) ==
    [max_workers_ |-> max_workers, workers_ |-> << >>, tasks_ |-> << >>,
     stopping_ |-> FALSE, idle_guess_ |-> 0,
     wk |-> [w \in 1..MaxSpawned |-> NoThreadYet], spawned |-> 0,
     caller |-> [c \in Callers |-> CallerIdle],
     task |-> [j \in 1..MaxTasks |-> NoTask], ntasks |-> 0,
     sd |-> [pc |-> "idle", i |-> 0], crashed |-> FALSE]

\* ensure_worker_unlocked: workers_.size() < max_workers_
has_room(p) == Len(p.workers_) < p.max_workers_

\* ensure_worker_unlocked: a worker is started when there is room and no
\* worker is counted idle
starts_worker(p) == has_room(p) /\ p.idle_guess_ = 0

\* ensure_worker_unlocked
ensure_worker_unlocked(p) ==
    IF starts_worker(p)
    THEN [p EXCEPT !.workers_ = Append(@, p.spawned + 1),
                   !.spawned = @ + 1,
                   !.wk[p.spawned + 1] = [NoThreadYet EXCEPT !.pc = "top"]]
    ELSE p

\* the locked block of submit: ensure_worker_unlocked(); tasks_.emplace(task)
submit_locked(p, j, inside) ==
    [ensure_worker_unlocked(p) EXCEPT
        !.tasks_ = Append(@, j),
        !.ntasks = @ + 1,
        !.task[j] = [NoTask EXCEPT !.submitted = TRUE, !.inside = inside]]

\* the predicate of cv_.wait in worker_loop
wake_pred(p) == p.stopping_ \/ p.tasks_ # << >>

\* worker_loop past its wait: return when the pool stops and no task is
\* left, else take the task at the front and call it
take_or_return(p, w) ==
    IF p.stopping_ /\ p.tasks_ = << >>
    THEN [p EXCEPT !.wk[w].pc = "exited"]
    ELSE [p EXCEPT !.wk[w] = [NoThreadYet EXCEPT !.pc = "run", !.job = Head(p.tasks_)],
                   !.tasks_ = Tail(@),
                   !.task[Head(p.tasks_)].runs = @ + 1]

(***************************************************************************)
(* State                                                                   *)
(***************************************************************************)
VARIABLES
    frames_,                 \* std::deque<Frame>
    total_bytes_,
    latest_ts_,
    dynamic_retention_sec_,
    budget_bytes_,
    single_static_mode_,
    static_grace_sec_,
    in_static_run_,
    static_since_ts_,
    cap_,                    \* SpscRing quick_lane_
    buf_,
    head_,
    tail_,
    pc_push,                 \* where the capture thread is inside push
    push_ref,                \* the local `ref` of push
    pc_pop,                  \* where the consumer thread is inside pop_quick
    pop_out,                 \* the `out` argument of pop_quick
    clock,                   \* time stamp of the last frame handed to push
    next_index,              \* the frame index the caller hands to the next push
    knob_calls,              \* number of setter calls
    op,                      \* the last completed call and what it returned
    run_img,                 \* history: the last valid image pushed
    run_start,               \* history: time of the first push of its run
    runs,                    \* history: number of runs of identical pushes
    cap_req,                 \* history: the capacity asked of the constructor
    appended,                \* history: indices of the deque entries created
    accepted,                \* history: handles accepted by the quick lane
    delivered,               \* history: handles returned by pop_quick
    dropped,                 \* history: indices refused by a full quick lane
    tracker,                 \* SceneActivityTracker: its configuration and fields
    upd,                     \* the last call of SceneActivityTracker::update
    main,                    \* main: its flags and where it is
    gate,                    \* wait_for_static_scene: its arguments and locals
    loop,                    \* main: the locals of the capture loop
    now,                     \* the clock (high_resolution_clock::now), in ticks
    files,                   \* the BMP files written by the recorder, in order
    pool_calls,              \* the calls of pool.push made by main, in order
    trail,                   \* history: one record for each pass of a loop
    cq,                      \* a CorrectionQueue, its callers and their calls
    router,                  \* an OrSwitch used as router, and its last call
    acc,                     \* one RGBWAccumulator and the last call made on it
    engine,                  \* StaticFrameParallel, its workers and its results
    sigs,                    \* the last comparison of two frames
    tiler,                   \* a QuadArrayManager used as tiler, and its last call
    det,                     \* a StaticActivityDetector and its last update
    cache,                   \* an OperationCache, its clock and its last call
    mq,                      \* a CorrectionQueue shared by several threads
    agg,                     \* an OrSwitch used as aggregator, its producers and its consumer
    pm,                      \* a call of QuadArrayManager::parallel_map
    wp                       \* a WorkerPool, its workers and its callers

poolVars ==
    <<frames_, total_bytes_, latest_ts_, in_static_run_, static_since_ts_>>
knobVars ==
    <<dynamic_retention_sec_, budget_bytes_, single_static_mode_, static_grace_sec_>>
ringVars == <<cap_, buf_, head_, tail_>>
threadVars == <<pc_push, push_ref, pc_pop, pop_out>>
callerVars == <<clock, next_index, knob_calls>>
historyVars ==
    <<cap_req, run_img, run_start, runs, appended, accepted, delivered, dropped>>

\* the frame pool, its quick lane and their callers
poolSide ==
    <<poolVars, knobVars, ringVars, threadVars, callerVars, op, historyVars>>
trackerVars == <<tracker, upd>>
\* the capture program around the pool
mainVars == <<main, gate, loop, now, files, pool_calls, trail>>
captureVars == <<trackerVars, mainVars>>
\* the correction queue, the render engine and the signature functions
renderVars == <<cq, router, acc, engine, sigs>>

\* the tiler, the aggregator, the pools of workers and the cache
utilVars == <<tiler, det, cache, mq, agg, pm, wp>>
\* all of them but one
notTiler == <<det, cache, mq, agg, pm, wp>>
notDet == <<tiler, cache, mq, agg, pm, wp>>
notCache == <<tiler, det, mq, agg, pm, wp>>
notShared == <<tiler, det, cache, agg, pm, wp>>
notAgg == <<tiler, det, cache, mq, pm, wp>>
notMap == <<tiler, det, cache, mq, agg, wp>>
notPool == <<tiler, det, cache, mq, agg, pm>>

vars == <<poolSide, captureVars, renderVars, utilVars>>

\* the record of a completed call
Call(name) == [name |-> name, arg |-> 0, fps |-> 0, clip |-> <<>>, written |-> <<>>]

\* head & mask_
Slot(i) == BitAnd(i, cap_ - 1)

\* LLMFramePool::LLMFramePool(retention_seconds, budget_mb, fps_hint,
\* quick_lane_capacity) with SpscRing::SpscRing
Construct(retention_seconds, budget_mb, quick_lane_capacity) ==
    /\ frames_ = <<>>
    /\ total_bytes_ = 0
    /\ latest_ts_ = 0
    /\ dynamic_retention_sec_ = retention_seconds
    /\ budget_bytes_ = budget_mb * 1024 * 1024
    /\ single_static_mode_ = TRUE
    /\ static_grace_sec_ = TicksPerSec
    /\ in_static_run_ = FALSE
    /\ static_since_ts_ = 0
    /\ cap_ = round_up_pow2(quick_lane_capacity)
    /\ buf_ = [i \in 0..(cap_ - 1) |-> NullRef]
    /\ head_ = 0
    /\ tail_ = 0
    /\ pc_push = "idle"
    /\ push_ref = NullRef
    /\ pc_pop = "idle"
    /\ pop_out = NullRef
    /\ clock = 0 - 1
    /\ next_index = 0
    /\ knob_calls = 0
    /\ op = Call("init")
    /\ run_img = NullImage
    /\ run_start = 0
    /\ runs = 0
    /\ cap_req = quick_lane_capacity
    /\ appended = <<>>
    /\ accepted = <<>>
    /\ delivered = <<>>
    /\ dropped = <<>>

\* main has not been started
MainIdle ==
    /\ main = [MainFlags(1, 0, FALSE, 0, 0, FALSE, FALSE, FALSE, FALSE) EXCEPT
                  !.pc = "off"]
    /\ gate = NoGate
    /\ loop = LoopStart(0)
    /\ now = 0
    /\ files = <<>>
    /\ pool_calls = <<>>
    /\ trail = <<>>

\* a router with its clock, the number of calls made on it and the last one
RouterAt(cfg, t) ==
    [r |-> NewRouter(cfg, t), clock |-> t, calls |-> 0, resets |-> 0,
     begun |-> 0, t0 |-> t, tlast |-> t, last |-> NoRouterCall]

\* an accumulator with its cap, the number of calls made on it and the last one
AccumulatorWith(max_w_cap) ==
    [a |-> NewAccumulator, cap |-> max_w_cap, ops |-> 0, last |-> "none",
     capped |-> FALSE]

\* the parts below at rest, one by one
QueueIdle == cq = NewQueue
RouterIdle == router = RouterAt(RouterConfig(5, 1, 0, TRUE), 0)
AccIdle == acc = AccumulatorWith(0)
EngineIdle == engine = NoEngine
SigsIdle == sigs = NoCompare

\* the correction queue, the router, the accumulator and the engine at rest
RenderIdle == QueueIdle /\ RouterIdle /\ AccIdle /\ EngineIdle /\ SigsIdle

\* the tiler at rest
TilerIdle == tiler = NewTiler

\* the detector at rest
DetectorIdle == det = DetectorWith(StaticActivityConfig(30, 50, TRUE, 4))

\* the parts that serve the others at rest
CacheIdle == cache = CacheWith(NewOperationCache(MaxCacheBytes))
SharedIdle == mq = NewSharedQueue
AggIdle == agg = NewAggregator("atomic_wait")
MapIdle == pm = NoMap
WorkersIdle == wp = NewWorkerPool(1)
UtilIdle ==
    TilerIdle /\ DetectorIdle /\ CacheIdle /\ SharedIdle /\ AggIdle /\ MapIdle /\ WorkersIdle

\* the capture program at rest: nothing of it has run
CaptureIdle ==
    /\ tracker = NewTracker(SceneActivityConfig(0, 0))
    /\ upd = NoUpdate
    /\ MainIdle
    /\ RenderIdle
    /\ UtilIdle

\* the pool and the capture program at rest
BaseIdle ==
    /\ Construct(MaxTime + 1, MaxBudgetMB, MaxCapReq)
    /\ tracker = NewTracker(SceneActivityConfig(0, 0))
    /\ upd = NoUpdate
    /\ MainIdle

\* the pool, the capture program and the serving parts at rest
HostIdle == BaseIdle /\ UtilIdle

\* a pool with any retention window and any quick-lane capacity
Init ==
    /\ \E r \in RetentionArgs, c \in 0..MaxCapReq : Construct(r, MaxBudgetMB, c)
    /\ CaptureIdle

\* a pool built the way the capture loops build it: a long retention window
InitKnobs == Construct(MaxTime + 1, MaxBudgetMB, MaxCapReq) /\ CaptureIdle

\* a pool with any retention window
InitReaders ==
    /\ \E r \in RetentionArgs : Construct(r, MaxBudgetMB, MaxCapReq)
    /\ CaptureIdle

(***************************************************************************)
(* LLMFramePool::push, capture thread                                      *)
(***************************************************************************)
\* the test of line 72: the new image is identical to the tail's
IdenticalToTail(img, cur_sig) ==
    /\ frames_ # <<>>
    /\ LET last == frames_[Len(frames_)]
       IN  /\ ~last.img.null
           /\ ok(last.img)
           /\ frames_identical(img, last.img, cur_sig, last.sig)

\* the caller's side of push(img, next_index, t): time stamps increase
CallTime(t) ==
    /\ UNCHANGED <<captureVars, renderVars, utilVars>>
    /\ pc_push = "idle"
    /\ t \in (clock + 1)..(clock + MaxDt)
    /\ t <= MaxTime

\* the caller's side of a push of a captured frame: the frame takes the
\* index and the time stamp
CallPush(t) ==
    /\ CallTime(t)
    /\ clock' = t
    /\ next_index' = next_index + 1
    /\ UNCHANGED knob_calls

\* history of the runs of identical valid pushes
NoteRun(img, t) ==
    IF run_img.null \/ img # run_img
    THEN /\ runs' = runs + 1
         /\ run_start' = t
         /\ run_img' = img
    ELSE UNCHANGED <<runs, run_start, run_img>>

\* a push that turns away the null pointer only
push_rejects_null_only(img) == img.null

\* the test of line 62: push returns the handle at once
push_rejects(img) == img.null \/ ~ok(img)

\* push of a null or invalid image: returns at once
PushInvalid(img, t) ==
    /\ CallTime(t)
    /\ push_rejects(img)
    /\ op' = Call("push_invalid")
    /\ UNCHANGED <<poolVars, knobVars, ringVars, threadVars, callerVars, historyVars>>

\* push of an image identical to the tail: the static run is extended
PushCoalesce(img, t) ==
    /\ CallPush(t)
    /\ ~push_rejects(img)
    /\ LET cur_sig == compute_operand_map(img)
           ext == ExtendRun(frames_, t)
           since == IF single_static_mode_ /\ ~in_static_run_
                    THEN t ELSE static_since_ts_
           col == IF single_static_mode_
                  THEN StaticCollapse(ext, total_bytes_, t, since, static_grace_sec_)
                  ELSE [frames |-> ext, total |-> total_bytes_]
           ev == evict_unlocked_keep_one(col.frames, col.total, t,
                                         dynamic_retention_sec_, budget_bytes_)
       IN  /\ IdenticalToTail(img, cur_sig)
           /\ latest_ts_' = t
           /\ in_static_run_' = (single_static_mode_ \/ in_static_run_)
           /\ static_since_ts_' = since
           /\ frames_' = ev.frames
           /\ total_bytes_' = ev.total
    /\ NoteRun(img, t)
    /\ op' = Call("push_coalesce")
    /\ UNCHANGED <<knobVars, ringVars, threadVars, cap_req, appended, accepted, delivered,
                   dropped>>

\* a publication of the oldest frame of the deque
quick_ref_front(fr) == make_shared(fr[1])

\* auto ref = std::make_shared<Frame>(frames_.back()): the quick lane is
\* given a copy of the newest frame
quick_ref(fr) == make_shared(fr[Len(fr)])

\* push of a changed image, up to the call of quick_lane_.push
PushAppend(img, t) ==
    /\ CallPush(t)
    /\ ~push_rejects(img)
    /\ LET cur_sig == compute_operand_map(img)
           f == NewFrame(img, next_index, t, cur_sig)
       IN  /\ ~IdenticalToTail(img, cur_sig)
           /\ latest_ts_' = t
           /\ in_static_run_' = (IF frames_ # <<>> THEN FALSE ELSE in_static_run_)
           /\ static_since_ts_' = (IF frames_ # <<>> THEN 0 ELSE static_since_ts_)
           /\ total_bytes_' = total_bytes_ + Len(f.img.bgra)
           /\ frames_' = Append(frames_, f)
           /\ push_ref' = quick_ref(Append(frames_, f))
    /\ pc_push' = "q_check"
    /\ appended' = Append(appended, next_index)
    /\ NoteRun(img, t)
    /\ op' = Call("push_begin")
    /\ UNCHANGED <<knobVars, ringVars, pc_pop, pop_out, cap_req, accepted, delivered, dropped>>

\* SpscRing::push: loads of head_ and tail_ and the full test
QuickCheck ==
    /\ UNCHANGED <<captureVars, renderVars, utilVars>>
    /\ pc_push = "q_check"
    /\ IF RingFull(head_ + 1, tail_, cap_)
       THEN /\ buf_' = BufOnFull(buf_, Slot(head_), push_ref)
            /\ dropped' = Append(dropped, push_ref.frame.index)
            /\ pc_push' = "evict"
            /\ op' = Call("quick_drop")
       ELSE /\ pc_push' = "q_write"
            /\ op' = Call("quick_check")
            /\ UNCHANGED <<buf_, dropped>>
    /\ UNCHANGED <<poolVars, knobVars, cap_, head_, tail_, push_ref, pc_pop, pop_out,
                   callerVars, cap_req, run_img, run_start, runs, appended, accepted,
                   delivered>>

\* SpscRing::push: buf_[head & mask_] = std::move(v)
QuickWrite ==
    /\ UNCHANGED <<captureVars, renderVars, utilVars>>
    /\ pc_push = "q_write"
    /\ buf_' = [buf_ EXCEPT ![Slot(head_)] = push_ref]
    /\ pc_push' = "q_store"
    /\ op' = Call("quick_write")
    /\ UNCHANGED <<poolVars, knobVars, cap_, head_, tail_, push_ref, pc_pop, pop_out,
                   callerVars, historyVars>>

\* SpscRing::push: head_.store(next, release); the handle is published
QuickStore ==
    /\ UNCHANGED <<captureVars, renderVars, utilVars>>
    /\ pc_push = "q_store"
    /\ head_' = head_ + 1
    /\ accepted' = Append(accepted, push_ref)
    /\ pc_push' = "evict"
    /\ op' = Call("quick_store")
    /\ UNCHANGED <<poolVars, knobVars, cap_, buf_, tail_, push_ref, pc_pop, pop_out,
                   callerVars, cap_req, run_img, run_start, runs, appended, delivered,
                   dropped>>

\* push of a changed image: the eviction of line 118 and the return
PushEnd ==
    /\ UNCHANGED <<captureVars, renderVars, utilVars>>
    /\ pc_push = "evict"
    /\ LET ev == evict_unlocked_keep_one(frames_, total_bytes_, latest_ts_,
                                         dynamic_retention_sec_, budget_bytes_)
       IN  /\ frames_' = ev.frames
           /\ total_bytes_' = ev.total
    /\ pc_push' = "idle"
    /\ op' = Call("push_append")
    /\ UNCHANGED <<latest_ts_, in_static_run_, static_since_ts_, knobVars, ringVars,
                   push_ref, pc_pop, pop_out, callerVars, historyVars>>

(***************************************************************************)
(* LLMFramePool::pop_quick = SpscRing::pop, consumer thread                *)
(***************************************************************************)
\* loads of tail_ and head_ and the empty test
PopCheck ==
    /\ UNCHANGED <<captureVars, renderVars, utilVars>>
    /\ pc_pop = "idle"
    /\ IF RingEmpty(tail_, head_)
       THEN /\ op' = Call("pop_empty")
            /\ UNCHANGED pc_pop
       ELSE /\ pc_pop' = "read"
            /\ op' = Call("pop_check")
    /\ UNCHANGED <<poolVars, knobVars, ringVars, pc_push, push_ref, pop_out,
                   callerVars, historyVars>>

\* out = std::move(buf_[tail & mask_]): the slot is left empty
PopRead ==
    /\ UNCHANGED <<captureVars, renderVars, utilVars>>
    /\ pc_pop = "read"
    /\ pop_out' = buf_[Slot(tail_)]
    /\ buf_' = [buf_ EXCEPT ![Slot(tail_)] = NullRef]
    /\ pc_pop' = "store"
    /\ op' = Call("pop_read")
    /\ UNCHANGED <<poolVars, knobVars, cap_, head_, tail_, pc_push, push_ref,
                   callerVars, historyVars>>

\* tail_.store(tail + 1, release); return true
PopStore ==
    /\ UNCHANGED <<captureVars, renderVars, utilVars>>
    /\ pc_pop = "store"
    /\ tail_' = tail_ + 1
    /\ delivered' = Append(delivered, pop_out)
    /\ pc_pop' = "idle"
    /\ op' = Call("pop")
    /\ UNCHANGED <<poolVars, knobVars, cap_, buf_, head_, pc_push, push_ref, pop_out,
                   callerVars, cap_req, run_img, run_start, runs, appended, accepted,
                   dropped>>

(***************************************************************************)
(* Readers and setters                                                     *)
(***************************************************************************)
\* snapshot_recent(last_seconds); it takes mu_, which push holds throughout
Snapshot(last_seconds) ==
    /\ UNCHANGED <<captureVars, renderVars, utilVars>>
    /\ pc_push = "idle"
    /\ op' = [Call("snapshot") EXCEPT
                !.arg = last_seconds,
                !.clip = snapshot_recent(frames_, latest_ts_, last_seconds)]
    /\ UNCHANGED <<poolVars, knobVars, ringVars, threadVars, callerVars, historyVars>>

\* export_recent_to_video(last_seconds, out, fps), up to the call of ffmpeg
Export(last_seconds, fps) ==
    /\ UNCHANGED <<captureVars, renderVars, utilVars>>
    /\ pc_push = "idle"
    /\ LET clip == snapshot_recent(frames_, latest_ts_, last_seconds)
       IN  op' = [Call("export") EXCEPT
                    !.arg = last_seconds, !.fps = fps, !.clip = clip,
                    !.written = ExportFrom(clip, 1, fps)]
    /\ UNCHANGED <<poolVars, knobVars, ringVars, threadVars, callerVars, historyVars>>

\* the caller's side of a setter call: the knobs are turned by the thread
\* that pushes, between two pushes, as the capture loops do
CallSetter ==
    /\ UNCHANGED <<captureVars, renderVars, utilVars>>
    /\ pc_push = "idle"
    /\ knob_calls < MaxKnobCalls
    /\ knob_calls' = knob_calls + 1

\* set_retention / set_dynamic_retention_sec
SetRetention(seconds) ==
    /\ CallSetter
    /\ dynamic_retention_sec_' = Max(0, seconds)
    /\ op' = Call("set_retention")
    /\ UNCHANGED <<poolVars, budget_bytes_, single_static_mode_, static_grace_sec_,
                   ringVars, threadVars, clock, next_index, historyVars>>

\* set_budget_mb
SetBudget(mb) ==
    /\ CallSetter
    /\ budget_bytes_' = mb * 1024 * 1024
    /\ op' = Call("set_budget_mb")
    /\ UNCHANGED <<poolVars, dynamic_retention_sec_, single_static_mode_,
                   static_grace_sec_, ringVars, threadVars, clock, next_index, historyVars>>

\* set_single_static_mode
SetSingleStaticMode(enabled, grace_seconds) ==
    /\ CallSetter
    /\ single_static_mode_' = enabled
    /\ static_grace_sec_' = Max(0, grace_seconds)
    /\ op' = Call("set_single_static_mode")
    /\ UNCHANGED <<poolVars, dynamic_retention_sec_, budget_bytes_,
                   ringVars, threadVars, clock, next_index, historyVars>>

(***************************************************************************)
(* SceneActivityTracker::update                                            *)
(***************************************************************************)
\* a pool that stands by while another part of the program is looked at
PoolIdle == Construct(MaxTime + 1, MaxBudgetMB, MaxCapReq) /\ RenderIdle /\ UtilIdle

\* a tracker of any configuration, not yet updated
InitTracker ==
    /\ PoolIdle
    /\ \E cfg \in TrackerConfigs : tracker = NewTracker(cfg)
    /\ upd = NoUpdate
    /\ MainIdle

\* the record of a call of update that returned r
NoteUpdate(cur, prev, tsec, r) ==
    LET compared == ~(prev.null \/ ~ok(prev) \/ ~ok(cur))
        class == IF compared THEN Classify(tracker.cfg_, r.d.diff_ratio)
                 ELSE NoClass
    IN  [called |-> TRUE, t |-> tsec, compared |-> compared,
         before |-> tracker, class |-> class, d |-> r.d,
         highs |-> IF class.is_high THEN upd.highs \cup {tsec} ELSE upd.highs]

\* a call of update(cur, prev, tsec); time does not run backwards
Update(cur, prev, tsec) ==
    /\ tsec \in upd.t..(upd.t + MaxDt)
    /\ tsec <= MaxTime
    /\ LET r == tracker_update(tracker, cur, prev, tsec)
       IN  /\ tracker' = r.tr
           /\ upd' = NoteUpdate(cur, prev, tsec, r)
    /\ UNCHANGED <<poolSide, renderVars, utilVars, mainVars>>

(***************************************************************************)
(* wait_for_static_scene and the static gate of main                       *)
(***************************************************************************)
\* a timeout test that lets the pass at the very timeout through
TimedOut_late(elapsed, timeout_sec) == elapsed > timeout_sec

\* the test of line 53
TimedOut(elapsed, timeout_sec) == elapsed >= timeout_sec

\* the result returned at the timeout (lines 54-59)
GateTimeoutResult ==
    LET good == gate.streak >= gate.needed
    IN  [gate.out EXCEPT
            !.ok = good,
            !.stable_seconds = [streak |-> gate.streak, fps |-> Max(1, gate.fps_hint)],
            !.message = IF good THEN "Stable at timeout boundary."
                        ELSE "Timeout: scene did not become static.",
            !.frame = IF good /\ ~gate.prev.null THEN gate.prev ELSE @,
            !.signature = IF good /\ ~gate.prev.null THEN gate.prev_map ELSE @]

\* one pass of the loop of wait_for_static_scene (lines 50-96): the capture
\* returns raw after w ticks
GatePass(raw, w) ==
    /\ main.pc = "gate"
    /\ gate.pc = "loop"
    /\ LET pass == [n |-> gate.pass.n + 1, start |-> now, captured |-> FALSE,
                    identical |-> FALSE, before |-> gate.streak]
       IN
       IF TimedOut(now - gate.t0, gate.timeout_sec)
       THEN /\ gate' = [gate EXCEPT !.pc = "done", !.out = GateTimeoutResult,
                                    !.pass = pass]
            /\ now' = now
       ELSE IF ~ok(raw)
       THEN \* sleep_for(interval); continue
            /\ gate' = [gate EXCEPT !.pass = pass]
            /\ now' = now + w + gate.interval
       ELSE LET cur == compute_operand_map(raw)
                identical ==
                    /\ gate.have_prev
                    /\ ~gate.prev.null
                    /\ IF gate.tolerant THEN same_signature(gate.prev_map, cur)
                       ELSE frames_identical(raw, gate.prev, cur, gate.prev_map)
                streak == IF identical THEN gate.streak + 1 ELSE 1
                seen == [gate EXCEPT
                            !.streak = streak,
                            !.out = [@ EXCEPT !.frames_observed = @ + 1],
                            !.prev = raw, !.prev_map = cur, !.have_prev = TRUE,
                            !.pass = [pass EXCEPT !.captured = TRUE,
                                                  !.identical = identical],
                            !.run = IF gate.have_prev /\ raw = gate.prev THEN @ + 1
                                    ELSE 1]
            IN  IF streak >= gate.needed
                THEN /\ gate' = [seen EXCEPT
                                    !.pc = "done",
                                    !.out = [@ EXCEPT
                                        !.ok = TRUE,
                                        !.stable_seconds =
                                            [streak |-> streak,
                                             fps |-> Max(1, gate.fps_hint)],
                                        !.identical_streak = streak,
                                        !.frame = raw,
                                        !.signature = cur,
                                        !.message = "Static scene confirmed."]]
                     /\ now' = now + w
                ELSE /\ gate' = [seen EXCEPT !.next = @ + gate.interval]
                     /\ now' = sleep_until(now + w, gate.next + gate.interval)
    /\ UNCHANGED <<poolSide, renderVars, utilVars, trackerVars, main, loop, files, pool_calls, trail>>

\* main, lines 377-382 and 447: a failed gate ends main with status 2, a
\* passed one lets it go on to the capture loop
StaticGateDone ==
    /\ main.pc = "gate"
    /\ gate.pc = "done"
    /\ IF ~gate.out.ok
       THEN /\ main' = [main EXCEPT !.pc = "exit", !.exit_code = 2]
            /\ UNCHANGED loop
       ELSE /\ main' = [main EXCEPT !.pc = "capture"]
            /\ loop' = LoopStart(now)
    /\ UNCHANGED <<poolSide, renderVars, utilVars, trackerVars, gate, now, files, pool_calls, trail>>

(***************************************************************************)
(* main: the capture loop                                                  *)
(***************************************************************************)
\* static_cast<double>(f) / fps, in ticks
tick_time(f, fps) == (f * TicksPerSec) \div fps

\* a recorder that writes every frame
record_frame_always(dedupe_block, identical) == TRUE

\* the test of line 506: the frame goes to the recorder
record_frame(dedupe_block, identical) == dedupe_block \/ ~identical

\* a failed capture that is counted among the captured frames
after_failed_capture_counted(lp) ==
    [lp EXCEPT !.f = @ + 1, !.frames_captured = @ + 1]

\* if (!raw.ok()) continue; and the ++f of the for statement
after_failed_capture(lp) == [lp EXCEPT !.f = @ + 1]

\* one pass of the capture loop (lines 464-561): the capture returns raw
\* after w ticks
Tick(raw, w) ==
    /\ main.pc = "capture"
    /\ loop.f < main.total_frames
    /\ LET f == loop.f
           tsec == tick_time(f, main.fps)
           pass == [f |-> f, raw |-> raw, start |-> now, w |-> w,
                    captured |-> FALSE, asked |-> FALSE, identical |-> FALSE,
                    block |-> FALSE, wrote |-> FALSE]
       IN
       IF ~ok(raw)
       THEN \* continue: the for statement still counts the pass
            /\ loop' = after_failed_capture(loop)
            /\ now' = now + w
            /\ trail' = Append(trail, pass)
            /\ UNCHANGED <<trackerVars, files, pool_calls>>
       ELSE LET cur_sig == compute_operand_map(raw)
                ask == main.adaptive_enabled /\ loop.have_prev /\ ~loop.prev.null
                r == IF ask THEN tracker_update(tracker, raw, loop.prev, tsec)
                     ELSE [tr |-> tracker,
                           d |-> [SceneActivityDecision EXCEPT !.allow_dedupe = TRUE]]
                identical ==
                    /\ r.d.allow_dedupe
                    /\ loop.have_prev
                    /\ ~loop.prev.null
                    /\ frames_identical(raw, loop.prev, cur_sig, loop.prev_sig)
                frame == apply_all(raw, main.grayscale)
                write == main.recording /\ record_frame(r.d.dedupe_block, identical)
                deadline == loop.next_time + frame_interval(main.fps)
            IN  /\ tracker' = r.tr
                /\ upd' = IF ask THEN NoteUpdate(raw, loop.prev, tsec, r) ELSE upd
                /\ pool_calls' = Append(pool_calls,
                                        [img |-> frame, index |-> f, tsec |-> tsec])
                /\ files' = IF write
                            THEN Append(files, [name |-> make_numbered(f, 6),
                                                img |-> frame])
                            ELSE files
                /\ loop' = [loop EXCEPT
                       !.f = f + 1,
                       !.quiet_frames = IF ask /\ r.d.quiet_active THEN @ + 1 ELSE @,
                       !.static_frames = IF ask /\ r.d.is_static_scene THEN @ + 1 ELSE @,
                       !.dedupe_block_frames = IF ask /\ r.d.dedupe_block THEN @ + 1 ELSE @,
                       !.skipped_dupes = IF main.recording /\ ~write THEN @ + 1 ELSE @,
                       !.frames_captured = @ + 1,
                       !.frames_duplicates = IF identical THEN @ + 1 ELSE @,
                       !.frames_unique = IF identical THEN @ ELSE @ + 1,
                       !.prev = frame, !.prev_sig = cur_sig, !.have_prev = TRUE,
                       !.next_time = IF main.total_frames > 1 THEN deadline ELSE @]
                /\ now' = IF main.total_frames > 1 THEN sleep_until(now + w, deadline)
                          ELSE now + w
                /\ trail' = Append(trail,
                       [pass EXCEPT !.captured = TRUE, !.asked = ask,
                                    !.identical = identical,
                                    !.block = r.d.dedupe_block, !.wrote = write])
    /\ UNCHANGED <<poolSide, renderVars, utilVars, main, gate>>

\* main after the loop (lines 563-583): return 0
CaptureComplete ==
    /\ main.pc = "capture"
    /\ loop.f = main.total_frames
    /\ main' = [main EXCEPT !.pc = "exit", !.exit_code = 0]
    /\ UNCHANGED <<poolSide, renderVars, utilVars, trackerVars, gate, loop, now, files, pool_calls, trail>>

\* main started with the given flags, at time 0
StartMain(fps, seconds, require_static, static_sec, static_timeout, static_tolerant, adaptive_enabled, grayscale, recording) ==
    /\ PoolIdle
    /\ tracker = MainTracker
    /\ upd = NoUpdate
    /\ main = MainFlags(fps, seconds, require_static, static_sec, static_timeout,
                        static_tolerant, adaptive_enabled, grayscale, recording)
    /\ gate = IF require_static
              THEN GateStart(main.fps, static_sec, static_timeout, static_tolerant, 0)
              ELSE NoGate
    /\ loop = LoopStart(0)
    /\ now = 0
    /\ files = <<>>
    /\ pool_calls = <<>>
    /\ trail = <<>>

\* the frames the screen shows: ImgB is ImgA with one byte one step off,
\* ImgD is far from both
ScreenImages == {ImgA, ImgB, ImgD}

\* --no-static-gate --record base, with and without --no-adaptive and
\* --grayscale, for every length of the run up to MaxFrames
InitLoop ==
    \E fps \in FrameRates \cup {0}, seconds \in 0..MaxSeconds,
       adaptive_enabled \in BOOLEAN, grayscale \in BOOLEAN :
        /\ StartMain(fps, seconds, FALSE, 0, 0, FALSE, adaptive_enabled, grayscale, TRUE)
        /\ main.total_frames <= MaxFrames

\* --no-static-gate --record base with the other flags at their defaults
InitSchedule ==
    \E fps \in FrameRates, seconds \in 0..MaxSeconds :
        /\ StartMain(fps, seconds, FALSE, 0, 0, FALSE, TRUE, FALSE, TRUE)
        /\ main.total_frames <= MaxSchedFrames

\* --seconds 0 --record base behind a static gate of any length and timeout
InitGate ==
    \E fps \in FrameRates, static_sec \in 0..MaxStatic,
       static_timeout \in 0..MaxTimeout, static_tolerant \in BOOLEAN :
        StartMain(fps, 0, TRUE, static_sec, static_timeout, static_tolerant,
                  TRUE, FALSE, TRUE)

(***************************************************************************)
(* CorrectionQueue: a thread that fills the queue and one that applies it  *)
(***************************************************************************)
\* the calls of kind `kind` made so far
QueueCalls(kind) == {i \in 1..Len(cq.history) : cq.history[i].kind = kind}

\* enqueue(fn) and enqueue_oneshot(fn): one step under the mutex; an empty
\* function is dropped
Enqueue(f, oneshot) ==
    /\ cq.enqueues < MaxEnqueues
    /\ LET id == Len(cq.history) + 1
           kind == IF f = NullFn THEN "null"
                   ELSE IF oneshot THEN "oneshot" ELSE "persistent"
           entry == [id |-> id, f |-> f]
       IN  cq' = [cq EXCEPT
                !.persistent_ = IF kind = "persistent" THEN Append(@, entry) ELSE @,
                !.oneshot_ = IF kind = "oneshot" THEN Append(@, entry) ELSE @,
                !.dirty_ = IF kind = "null" THEN @ ELSE TRUE,
                !.enqueues = @ + 1,
                !.history = Append(@, QueueCall(kind, id, f))]
    /\ UNCHANGED <<poolSide, captureVars, utilVars, router, acc, engine, sigs>>

\* clear(): one step under the mutex
ClearQueue ==
    /\ Cardinality(QueueCalls("clear")) < MaxClears
    /\ cq' = [clear(cq) EXCEPT
                !.history = Append(@, QueueCall("clear", Len(cq.history) + 1, NullFn))]
    /\ UNCHANGED <<poolSide, captureVars, utilVars, router, acc, engine, sigs>>

\* the record of the apply_all call that ends: what ran, what it returned
ApplyCall(began, snap, ran, ret, before, after) ==
    [QueueCall("apply", Len(cq.history) + 1, NullFn) EXCEPT
        !.began = began, !.snap = snap, !.ran = ran, !.ret = ret,
        !.before = before, !.after = after]

\* apply_all, line 914: the load of dirty_, before the mutex is taken
ApplyBegin(img) ==
    /\ cq.app.pc = "idle"
    /\ cq.applies < MaxApplies
    /\ LET began == Len(cq.history)
       IN  IF ~cq.dirty_
           THEN cq' = [cq EXCEPT
                    !.applies = @ + 1,
                    !.history = Append(@, ApplyCall(began, began, <<>>, FALSE, img, img))]
           ELSE cq' = [cq EXCEPT
                    !.applies = @ + 1,
                    !.app = [NoApply EXCEPT !.pc = "lock", !.img = img,
                                            !.before = img, !.began = began]]
    /\ UNCHANGED <<poolSide, captureVars, utilVars, router, acc, engine, sigs>>

\* apply_all, lines 919-931: the snapshot under the mutex
ApplySnapshot ==
    /\ cq.app.pc = "lock"
    /\ LET snap == Len(cq.history)
       IN  IF cq.persistent_ = <<>> /\ cq.oneshot_ = <<>>
           THEN cq' = [cq EXCEPT
                    !.dirty_ = FALSE,
                    !.app = NoApply,
                    !.history = Append(@, ApplyCall(cq.app.began, snap, <<>>, FALSE,
                                                    cq.app.before, cq.app.img))]
           ELSE cq' = [cq EXCEPT
                    !.oneshot_ = oneshot_after_swap(@),
                    !.app = [@ EXCEPT !.pc = "run", !.snap = snap,
                                      !.local_persist = cq.persistent_,
                                      !.local_oneshot = cq.oneshot_]]
    /\ UNCHANGED <<poolSide, captureVars, utilVars, router, acc, engine, sigs>>

\* apply_all, lines 933-941: the transforms run outside the mutex
ApplyRun ==
    /\ cq.app.pc = "run"
    /\ LET fns == run_order(cq.app.local_persist, cq.app.local_oneshot)
           after == RunAll(fns, cq.app.img)
           ran == [i \in 1..Len(fns) |-> fns[i].id]
       IN  cq' = [cq EXCEPT
                !.app = NoApply,
                !.history = Append(@, ApplyCall(cq.app.began, cq.app.snap, ran,
                                                fns # <<>>, cq.app.before, after))]
    /\ UNCHANGED <<poolSide, captureVars, utilVars, router, acc, engine, sigs>>

\* a queue just constructed
InitQueue == HostIdle /\ QueueIdle /\ RouterIdle /\ AccIdle /\ EngineIdle /\ SigsIdle

(***************************************************************************)
(* OrSwitch: the calls of a router, made by one thread                     *)
(***************************************************************************)
\* begin_frame, dt ticks after the call before
RouterBeginFrame(dt) ==
    /\ router.calls < MaxRouterCalls
    /\ router' = [router EXCEPT
            !.r = begin_frame(@, router.clock + dt),
            !.clock = @ + dt, !.calls = @ + 1,
            !.begun = @ + 1, !.tlast = router.clock + dt,
            !.last = [NoRouterCall EXCEPT !.kind = "begin_frame"]]
    /\ UNCHANGED <<poolSide, captureVars, utilVars, cq, acc, engine, sigs>>

\* reset_calibration, dt ticks after the call before
RouterReset(dt) ==
    /\ router.calls < MaxRouterCalls
    /\ router' = [router EXCEPT
            !.r = reset_calibration(@, router.clock + dt),
            !.clock = @ + dt, !.calls = @ + 1, !.resets = @ + 1,
            !.begun = 0, !.t0 = router.clock + dt, !.tlast = router.clock + dt,
            !.last = [NoRouterCall EXCEPT !.kind = "reset_calibration"]]
    /\ UNCHANGED <<poolSide, captureVars, utilVars, cq, acc, engine, sigs>>

\* update_tile_change(tile, percent)
RouterUpdate(tile, percent) ==
    /\ router.calls < MaxRouterCalls
    /\ router' = [router EXCEPT
            !.r = update_tile_change(@, tile, percent),
            !.calls = @ + 1,
            !.last = [NoRouterCall EXCEPT !.kind = "update_tile_change",
                                          !.tile = tile, !.percent = percent]]
    /\ UNCHANGED <<poolSide, captureVars, utilVars, cq, acc, engine, sigs>>

\* decide(tile)
RouterDecide(tile) ==
    /\ router.calls < MaxRouterCalls
    /\ router' = [router EXCEPT
            !.calls = @ + 1,
            !.last = [NoRouterCall EXCEPT !.kind = "decide", !.tile = tile,
                                          !.route = decide(router.r, tile)]]
    /\ UNCHANGED <<poolSide, captureVars, utilVars, cq, acc, engine, sigs>>

\* a router of any configuration, just constructed
InitRouter ==
    /\ HostIdle /\ QueueIdle /\ AccIdle /\ EngineIdle /\ SigsIdle
    /\ \E cfg \in RouterConfigs : router = RouterAt(cfg, 0)

(***************************************************************************)
(* RGBWAccumulator: the calls made on one cell                             *)
(***************************************************************************)
\* add_with_cap(p, weight, cap)
AccAdd(p, weight) ==
    /\ acc.ops < MaxAccOps
    /\ acc' = [acc EXCEPT
            !.a = add_with_cap(@, p, weight, acc.cap),
            !.ops = @ + 1, !.last = "add_with_cap",
            !.capped = acc.a.w + weight > acc.cap]
    /\ UNCHANGED <<poolSide, captureVars, utilVars, cq, router, engine, sigs>>

\* clear()
AccClear ==
    /\ acc.ops < MaxAccOps
    /\ acc' = [acc EXCEPT !.a = accumulator_clear(@), !.ops = @ + 1,
                          !.last = "clear", !.capped = FALSE]
    /\ UNCHANGED <<poolSide, captureVars, utilVars, cq, router, engine, sigs>>

\* an empty accumulator and the cap that its owner uses
InitAccumulator ==
    /\ HostIdle /\ QueueIdle /\ RouterIdle /\ EngineIdle /\ SigsIdle
    /\ \E max_w_cap \in 0..MaxCap : acc = AccumulatorWith(max_w_cap)

(***************************************************************************)
(* sig::frames_identical and sig::same_signature on two frames             *)
(***************************************************************************)
\* the signatures of the two frames are computed and the frames compared
Compare ==
    /\ ~sigs.called
    /\ LET ma == compute_operand_map(sigs.a)
           mb == compute_operand_map(sigs.b)
       IN  sigs' = [sigs EXCEPT
                !.called = TRUE, !.ma = ma, !.mb = mb,
                !.identical = frames_identical(sigs.a, sigs.b, ma, mb),
                !.same = same_signature(ma, mb)]
    /\ UNCHANGED <<poolSide, captureVars, utilVars, cq, router, acc, engine>>

\* any two frames, not yet compared
InitCompare ==
    /\ HostIdle /\ QueueIdle /\ RouterIdle /\ AccIdle /\ EngineIdle
    /\ \E a \in SigImages, b \in SigImages :
          sigs = [NoCompare EXCEPT !.a = a, !.b = b]

(***************************************************************************)
(* StaticFrameParallel::render_next_frame and its tile workers             *)
(***************************************************************************)
\* the cells of the tile that worker wk holds, counted from 0
CellsOf(wk) == TileCells(engine.tiles_[wk.ti + 1], engine.width_)

\* the next step of worker wk has to grow last_change_
NeedsResize(wk) == Len(engine.router_.last_change_) < wk.ti + 1

\* what the next step of worker wk reads and writes without a lock: cells of
\* accum_, curr_amplitude_ and prev_amplitude_, the vector last_change_ of
\* the router (its size and its buffer) and one entry of it, one slot of
\* local_dirty; the fetch_add on next_tile is atomic and is not listed
Accesses(wk) ==
    IF wk.pc = "pixels" THEN
        UNION {{[loc |-> <<"accum_", i>>, write |-> TRUE],
                [loc |-> <<"curr_amplitude_", i>>, write |-> TRUE],
                [loc |-> <<"prev_amplitude_", i>>, write |-> FALSE]} : i \in CellsOf(wk)}
            \cup {[loc |-> <<"calibrated_", 0>>, write |-> FALSE]}
    ELSE IF wk.pc = "update" THEN
        {[loc |-> <<"last_change_", 0>>, write |-> NeedsResize(wk)],
         [loc |-> <<"last_change_[]", wk.ti>>, write |-> TRUE]}
    ELSE IF wk.pc = "decide" THEN
        {[loc |-> <<"last_change_", 0>>, write |-> FALSE],
         [loc |-> <<"last_change_[]", wk.ti>>, write |-> FALSE],
         [loc |-> <<"calibrated_", 0>>, write |-> FALSE],
         [loc |-> <<"local_dirty", wk.ti>>, write |-> TRUE]}
    ELSE {}

\* two steps touch one location and one of them writes it
Conflict(A, B) == \E a \in A, b \in B : a.loc = b.loc /\ (a.write \/ b.write)

\* the next step of worker k races with the next step of another worker
Racing(k) ==
    \E j \in DOMAIN engine.workers :
        j # k /\ Conflict(Accesses(engine.workers[k]), Accesses(engine.workers[j]))

\* a join that waits for no worker
all_joined_none(workers) == TRUE

\* for (auto& th : pool) th.join(): every worker has left its loop
all_joined(workers) == \A k \in DOMAIN workers : workers[k].pc = "done"

\* a test of line 220 that takes every tile for dirty
tile_is_dirty_always(dirty) == TRUE

\* if (tile_dirty_[ti])
tile_is_dirty(dirty) == dirty # 0

\* clear_dynamic_tiles_for_next_frame on the accumulators
clear_dynamic_tiles(accum, tiles, width, tile_dirty) ==
    [i \in 1..Len(accum) |->
        IF \E ti \in 1..Len(tiles) :
              tile_is_dirty(tile_dirty[ti]) /\ (i - 1) \in TileCells(tiles[ti], width)
        THEN accumulator_clear(accum[i])
        ELSE accum[i]]

\* render_next_frame up to the start of the workers; samples[i + 1] is the
\* pixel that the generator yields for cell i in this frame
RenderBegin(samples) ==
    /\ engine.pc = "idle"
    /\ engine.renders < MaxRenders
    /\ engine.width_ > 0
    /\ engine' = [engine EXCEPT
            !.router_ = begin_frame(@, 0),
            !.curr_amplitude_ = [i \in 1..Len(@) |-> Frac(0, 1)],
            !.next_tile = 0,
            !.local_dirty = [i \in 1..Len(engine.tiles_) |-> 0],
            !.samples = samples,
            !.workers = [k \in DOMAIN @ |-> [pc |-> "fetch", ti |-> 0, percent |-> 0]],
            !.pc = "workers",
            !.processed = [i \in 1..Len(engine.tiles_) |-> {}],
            !.visits = [i \in 1..Len(engine.tiles_) |-> 0],
            !.begun_prev = engine.prev_amplitude_,
            !.begun_dirty = engine.tile_dirty_,
            !.joined = FALSE]
    /\ UNCHANGED <<poolSide, captureVars, utilVars, cq, router, acc, sigs>>

\* ti = next_tile.fetch_add(1) and the loop test, by worker k
WorkerFetch(k) ==
    /\ engine.pc = "workers"
    /\ engine.workers[k].pc = "fetch"
    /\ LET ti == engine.next_tile
       IN  engine' = [engine EXCEPT
                !.next_tile = @ + 1,
                !.workers[k] = IF ti < Len(engine.tiles_)
                               THEN [pc |-> "pixels", ti |-> ti, percent |-> 0]
                               ELSE NoWorker,
                !.visits = IF ti < Len(engine.tiles_)
                           THEN [@ EXCEPT ![ti + 1] = @ + 1] ELSE @,
                !.processed = IF ti < Len(engine.tiles_)
                              THEN [@ EXCEPT ![ti + 1] = @ \cup {k}] ELSE @]
    /\ UNCHANGED <<poolSide, captureVars, utilVars, cq, router, acc, sigs>>

\* the pixel loops of process_tile, by worker k
WorkerPixels(k) ==
    /\ engine.pc = "workers"
    /\ engine.workers[k].pc = "pixels"
    /\ LET wk == engine.workers[k]
           cells == CellsOf(wk)
           eps == IF engine.router_.calibrated_ THEN engine.cfg_.router.epsilon ELSE 0
           curr == [i \in 1..Len(engine.curr_amplitude_) |->
                      IF (i - 1) \in cells THEN amplitude_of(engine.samples[i])
                      ELSE engine.curr_amplitude_[i]]
           changed == {i \in cells : gt_eps(engine.prev_amplitude_[i + 1], curr[i + 1], eps)}
       IN  engine' = [engine EXCEPT
                !.curr_amplitude_ = curr,
                !.accum_ = [i \in 1..Len(@) |->
                              IF (i - 1) \in cells
                              THEN add_with_cap(@[i], engine.samples[i], 1,
                                                engine.cfg_.max_accum_weight)
                              ELSE @[i]],
                !.workers[k] = [pc |-> "update", ti |-> wk.ti,
                                percent |-> percent_changed(Cardinality(changed),
                                                            Cardinality(cells))],
                !.raced = @ \/ Racing(k)]
    /\ UNCHANGED <<poolSide, captureVars, utilVars, cq, router, acc, sigs>>

\* router_.update_tile_change(tile_index, percent_changed), by worker k; a
\* call that races with another worker's step on last_change_ may be lost
WorkerUpdate(k, lost) ==
    /\ engine.pc = "workers"
    /\ engine.workers[k].pc = "update"
    /\ lost => Racing(k)
    /\ LET wk == engine.workers[k]
       IN  engine' = [engine EXCEPT
                !.router_ = IF lost THEN @ ELSE update_tile_change(@, wk.ti, wk.percent),
                !.percents[wk.ti + 1] = wk.percent,
                !.workers[k].pc = "decide",
                !.raced = @ \/ Racing(k),
                !.lost = @ \/ lost]
    /\ UNCHANGED <<poolSide, captureVars, utilVars, cq, router, acc, sigs>>

\* route = router_.decide(tile_index) and the store to local_dirty, by worker
\* k; a read that races with a resize of last_change_ may yield any route
WorkerDecide(k, route) ==
    /\ engine.pc = "workers"
    /\ engine.workers[k].pc = "decide"
    /\ LET wk == engine.workers[k]
       IN  /\ route = decide(engine.router_, wk.ti) \/ Racing(k)
           /\ engine' = [engine EXCEPT
                !.local_dirty[wk.ti + 1] = IF route = "GPU" THEN 1 ELSE 0,
                !.routes[wk.ti + 1] = route,
                !.workers[k].pc = "fetch",
                !.raced = @ \/ Racing(k)]
    /\ UNCHANGED <<poolSide, captureVars, utilVars, cq, router, acc, sigs>>

\* render_next_frame from the join to the return
RenderEnd ==
    /\ engine.pc = "workers"
    /\ all_joined(engine.workers)
    /\ engine' = [engine EXCEPT
            !.prev_amplitude_ = engine.curr_amplitude_,
            !.tile_dirty_ = engine.local_dirty,
            !.accum_ = clear_dynamic_tiles(@, engine.tiles_, engine.width_,
                                           engine.local_dirty),
            !.out = [pixels |-> [i \in 1..Len(engine.accum_) |-> to_pixel(engine.accum_[i])],
                     tile_dirty_mask |-> engine.local_dirty,
                     calibration_complete |-> engine.router_.calibrated_],
            !.pc = "idle",
            !.renders = @ + 1,
            !.joined_accum = engine.accum_,
            !.joined = \A k \in DOMAIN engine.workers : engine.workers[k].pc = "done"]
    /\ UNCHANGED <<poolSide, captureVars, utilVars, cq, router, acc, sigs>>

\* the frames that the generator yields for an engine of the given width:
\* the sampled pixels brighten from left to right, as the wavelength grows
FramesOf(width) ==
    {f \in [1..width -> EnginePixels] :
        \A i, j \in 1..width : i < j => f[i].red <= f[j].red}

\* the routes of the router
Routes == {"CPU", "GPU", "Skip"}

\* the frames of one row looked at, as width and tile width: two tiles of
\* one pixel, and a tile of two pixels followed by a tile of one
EngineShapes == {<<2, 1>>, <<3, 2>>}

\* an engine of one row and two tiles, of up to MaxThreads workers, K = 50
\* percent, calibrated from its second frame on
InitEngine ==
    /\ HostIdle /\ QueueIdle /\ RouterIdle /\ AccIdle /\ SigsIdle
    /\ \E threads \in 1..MaxThreads, shape \in EngineShapes :
          engine = NewEngine(EngineConfig(shape[2], 1, threads,
                                          RouterConfig(50, 2, 0, TRUE), MaxCap),
                             shape[1], 1, 0)

(***************************************************************************)
(* QuadArrayManager as a tiler: configure and tile_index_from_xy           *)
(***************************************************************************)
\* configure(frame_w, frame_h, tile_w, tile_h)
Configure(frame_w, frame_h, tile_w, tile_h) ==
    /\ tiler.calls < MaxTilerCalls
    /\ tiler' = [tiler EXCEPT
            !.q = configure(@, frame_w, frame_h, tile_w, tile_h),
            !.calls = @ + 1,
            !.last = [kind |-> "configure", x |-> 0, y |-> 0, ret |-> NoTile]]
    /\ UNCHANGED <<poolSide, captureVars, renderVars, notTiler>>

\* tile_index_from_xy(x, y)
TileIndexFromXY(x, y) ==
    /\ tiler.calls < MaxTilerCalls
    /\ tiler' = [tiler EXCEPT
            !.calls = @ + 1,
            !.last = [kind |-> "tile_index_from_xy", x |-> x, y |-> y,
                      ret |-> tile_index_from_xy(tiler.q, x, y)]]
    /\ UNCHANGED <<poolSide, captureVars, renderVars, notTiler>>

\* a tiler just constructed
InitTiler == HostIdle /\ RenderIdle

(***************************************************************************)
(* StaticActivityDetector::update, next to the tracker                     *)
(***************************************************************************)
\* update(current, tsec) of the detector
DetectorUpdate(current, tsec) ==
    /\ det.calls < MaxDetectorCalls
    /\ ~upd.called
    /\ tsec \in det.last.t..(det.last.t + MaxDt)
    /\ tsec <= MaxTime
    /\ LET r == detector_update(det.d, current, tsec)
       IN  det' = [det EXCEPT
                !.d = r.d, !.calls = @ + 1,
                !.last = [t |-> tsec,
                          compared |-> ~(det.d.last_.null \/ ~ok(det.d.last_) \/ ~ok(current)),
                          before |-> det.d, dec |-> r.dec]]
    /\ UNCHANGED <<poolSide, captureVars, renderVars, notDet>>

\* update(cur, prev, tsec) of a tracker that is driven in place of the detector
TrackerInPlace(cur, prev, tsec) == det.calls = 0 /\ Update(cur, prev, tsec)

\* a detector of any configuration, and a tracker with a wide middle band
InitDetector ==
    /\ Construct(MaxTime + 1, MaxBudgetMB, MaxCapReq) /\ MainIdle
    /\ RenderIdle /\ TilerIdle /\ CacheIdle /\ SharedIdle /\ AggIdle /\ MapIdle /\ WorkersIdle
    /\ tracker = NewTracker([SceneActivityConfig(1, 1) EXCEPT
                                !.static_thr = 250, !.wake_thr = 750, !.sample_stride = 1])
    /\ upd = NoUpdate
    /\ \E cfg \in DetectorConfigs : det = DetectorWith(cfg)

(***************************************************************************)
(* OperationCache: put and set_max_bytes                                   *)
(***************************************************************************)
\* put(key, v, bytes_hint) of a value of size_of bytes, dt ticks after the
\* call before; a null v returns at once
Put(key, v_null, bytes_hint, size_of, dt) ==
    /\ cache.puts < MaxPuts
    /\ LET ts == cache.clk + dt
           sz == put_size(bytes_hint, size_of)
           c1 == put_locked(cache.c, key, ts, sz)
       IN  IF v_null
           THEN cache' = [cache EXCEPT
                    !.clk = ts, !.puts = @ + 1,
                    !.last = [kind |-> "put_null", key |-> key, sz |-> 0,
                              overwrote |-> FALSE, purged |-> 0]]
           ELSE \E v \in OldestFirst(c1.entries_) :
                  LET c2 == evict_if_needed(c1, v)
                  IN  cache' = [cache EXCEPT
                          !.c = c2, !.clk = ts, !.puts = @ + 1,
                          !.last = [kind |-> "put", key |-> key, sz |-> sz,
                                    overwrote |-> key \in Stored(cache.c.entries_),
                                    purged |-> Cardinality(Stored(c1.entries_))
                                               - Cardinality(Stored(c2.entries_))]]
    /\ UNCHANGED <<poolSide, captureVars, renderVars, notCache>>

\* set_max_bytes(b)
SetMaxBytes(b) ==
    /\ cache.puts < MaxPuts
    /\ cache.c.max_bytes_ # b
    /\ cache.last.kind # "set_max_bytes"
    /\ cache' = [cache EXCEPT
            !.c = [@ EXCEPT !.max_bytes_ = b],
            !.last = [kind |-> "set_max_bytes", key |-> 0, sz |-> 0,
                      overwrote |-> FALSE, purged |-> 0]]
    /\ UNCHANGED <<poolSide, captureVars, renderVars, notCache>>

\* a cache just constructed
InitCache ==
    /\ BaseIdle /\ RenderIdle /\ TilerIdle /\ DetectorIdle /\ SharedIdle /\ AggIdle /\ MapIdle /\ WorkersIdle
    /\ \E max_bytes \in 0..MaxCacheBytes : cache = CacheWith(NewOperationCache(max_bytes))

(***************************************************************************)
(* CorrectionQueue: calls from several threads, statement by statement     *)
(***************************************************************************)
\* the transforms in a list
Ids(list) == {list[i] : i \in 1..Len(list)}

\* enqueue(fn) or enqueue_oneshot(fn) is called with an empty fn: it returns
SharedEnqueueNull(t) ==
    /\ mq.th[t].pc = "idle"
    /\ mq.calls < MaxQueueCalls
    /\ mq' = [mq EXCEPT !.calls = @ + 1]
    /\ UNCHANGED <<poolSide, captureVars, renderVars, notShared>>

\* enqueue(fn) or enqueue_oneshot(fn) is called with a transform
SharedEnqueue(t, oneshot) ==
    /\ mq.th[t].pc = "idle"
    /\ mq.calls < MaxQueueCalls
    /\ mq' = [mq EXCEPT
            !.calls = @ + 1,
            !.oneshots = IF oneshot THEN @ \cup {mq.calls + 1} ELSE @,
            !.th[t] = [ThreadIdle EXCEPT !.pc = "enq_lock", !.call = mq.calls + 1,
                                        !.id = mq.calls + 1, !.oneshot = oneshot]]
    /\ UNCHANGED <<poolSide, captureVars, renderVars, notShared>>

\* clear() is called
SharedClear(t) ==
    /\ mq.th[t].pc = "idle"
    /\ mq.calls < MaxQueueCalls
    /\ mq' = [mq EXCEPT
            !.calls = @ + 1,
            !.th[t] = [ThreadIdle EXCEPT !.pc = "clr_lock", !.call = mq.calls + 1]]
    /\ UNCHANGED <<poolSide, captureVars, renderVars, notShared>>

\* std::lock_guard<std::mutex> lk(mu_) of enqueue, apply_all and clear
SharedLock(t) ==
    /\ mq.th[t].pc \in {"enq_lock", "app_lock", "clr_lock"}
    /\ mq.mu_ = NoThread
    /\ mq' = [mq EXCEPT
            !.mu_ = t,
            !.th[t].pc = IF @ = "enq_lock" THEN "enq_push"
                         ELSE IF @ = "app_lock" THEN "app_check" ELSE "clr_lists"]
    /\ UNCHANGED <<poolSide, captureVars, renderVars, notShared>>

\* persistent_.push_back(fn) or oneshot_.push_back(fn)
SharedPush(t) ==
    /\ mq.th[t].pc = "enq_push"
    /\ mq' = [mq EXCEPT
            !.persistent_ = IF mq.th[t].oneshot THEN @ ELSE Append(@, mq.th[t].id),
            !.oneshot_ = IF mq.th[t].oneshot THEN Append(@, mq.th[t].id) ELSE @,
            !.th[t].pc = "enq_store"]
    /\ UNCHANGED <<poolSide, captureVars, renderVars, notShared>>

\* dirty_.store(true) of enqueue and enqueue_oneshot
SharedMarkDirty(t) ==
    /\ mq.th[t].pc = "enq_store"
    /\ mq' = [mq EXCEPT !.dirty_ = TRUE, !.th[t].pc = "enq_unlock"]
    /\ UNCHANGED <<poolSide, captureVars, renderVars, notShared>>

\* the end of the lock_guard: enqueue and clear return, apply_all returns
\* false or goes on to run its copies
SharedUnlock(t) ==
    /\ mq.th[t].pc \in {"enq_unlock", "app_unlock", "clr_unlock"}
    /\ mq.mu_ = t
    /\ mq' = [mq EXCEPT
            !.mu_ = NoThread,
            !.completed = IF mq.th[t].pc = "enq_unlock" THEN @ \cup {mq.th[t].id} ELSE @,
            !.th[t] = IF @.pc = "app_unlock" /\ ~@.empty
                      THEN [@ EXCEPT !.pc = "app_run"] ELSE ThreadIdle]
    /\ UNCHANGED <<poolSide, captureVars, renderVars, notShared>>

\* apply_all, line 914: the load of dirty_ without the mutex
SharedApply(t) ==
    /\ mq.th[t].pc = "idle"
    /\ mq.calls < MaxQueueCalls
    /\ IF ~mq.dirty_
       THEN mq' = [mq EXCEPT
                !.calls = @ + 1,
                !.fast = @ + 1,
                !.passed_over = @ \cup ((Ids(mq.persistent_) \cup Ids(mq.oneshot_))
                                        \cap mq.completed)]
       ELSE mq' = [mq EXCEPT
                !.calls = @ + 1,
                !.th[t] = [ThreadIdle EXCEPT !.pc = "app_lock", !.call = mq.calls + 1]]
    /\ UNCHANGED <<poolSide, captureVars, renderVars, notShared>>

\* apply_all, lines 921-926 under the mutex: the empty queue is marked
\* clean, any other is copied and its one-shots are taken
SharedSnapshot(t) ==
    /\ mq.th[t].pc = "app_check"
    /\ IF apply_finds_empty(mq.persistent_, mq.oneshot_)
       THEN mq' = [mq EXCEPT
                !.dirty_ = FALSE,
                !.th[t].pc = "app_unlock", !.th[t].empty = TRUE]
       ELSE mq' = [mq EXCEPT
                !.oneshot_ = oneshot_after_swap(@),
                !.th[t].pc = "app_unlock",
                !.th[t].local_persist = mq.persistent_,
                !.th[t].local_oneshot = mq.oneshot_]
    /\ UNCHANGED <<poolSide, captureVars, renderVars, notShared>>

\* apply_all, lines 933-941: the copies run on the caller's image
SharedRun(t) ==
    /\ mq.th[t].pc = "app_run"
    /\ LET fns == run_order(mq.th[t].local_persist, mq.th[t].local_oneshot)
       IN  mq' = [mq EXCEPT
                !.ran = @ \cup {<<mq.th[t].call, fns[i]>> : i \in 1..Len(fns)},
                !.th[t] = ThreadIdle]
    /\ UNCHANGED <<poolSide, captureVars, renderVars, notShared>>

\* clear: persistent_.clear(); oneshot_.clear()
SharedClearLists(t) ==
    /\ mq.th[t].pc = "clr_lists"
    /\ mq' = [mq EXCEPT !.persistent_ = << >>, !.oneshot_ = << >>,
                        !.th[t].pc = "clr_store"]
    /\ UNCHANGED <<poolSide, captureVars, renderVars, notShared>>

\* clear: dirty_.store(false)
SharedMarkClean(t) ==
    /\ mq.th[t].pc = "clr_store"
    /\ mq' = [mq EXCEPT !.dirty_ = FALSE, !.th[t].pc = "clr_unlock"]
    /\ UNCHANGED <<poolSide, captureVars, renderVars, notShared>>

\* a queue just constructed, shared by its threads
InitShared ==
    /\ BaseIdle /\ RenderIdle /\ TilerIdle /\ DetectorIdle /\ CacheIdle /\ SharedIdle /\ AggIdle /\ MapIdle /\ WorkersIdle

(***************************************************************************)
(* OrSwitch: signal from the producers, consume from one consumer          *)
(***************************************************************************)
\* signal(idx): mask_.fetch_or(bit, release)
Signal(p, idx) ==
    /\ agg.prod[p].pc = "idle"
    /\ agg.signals < MaxSignals
    /\ LET prev == agg.mask_
       IN  agg' = [agg EXCEPT
                !.mask_ = fetch_or(@, idx),
                !.owed = @ \cup {idx},
                !.signals = @ + 1,
                !.prod[p] = IF signal_notifies(prev)
                            THEN [AggThreadIdle EXCEPT
                                     !.pc = IF agg.build = "condvar" THEN "lock" ELSE "notify",
                                     !.kind = "signal", !.idx = idx, !.prev = prev]
                            ELSE AggThreadIdle]
    /\ UNCHANGED <<poolSide, captureVars, renderVars, notAgg>>

\* signal, condition-variable build: std::lock_guard<std::mutex> lk(cv_m_)
SignalLock(p) ==
    /\ agg.prod[p].pc = "lock"
    /\ agg.cv_m_ = Nobody
    /\ agg' = [agg EXCEPT !.cv_m_ = p, !.prod[p].pc = "notify"]
    /\ UNCHANGED <<poolSide, captureVars, renderVars, notAgg>>

\* signal: mask_.notify_one() or cv_.notify_one(); a consumer that is
\* blocked is made runnable, and the lock_guard ends
SignalNotify(p) ==
    /\ agg.prod[p].pc = "notify"
    /\ agg' = [agg EXCEPT
            !.blocked = FALSE,
            !.cons.pc = IF agg.blocked THEN "woken" ELSE @,
            !.cv_m_ = IF @ = p THEN Nobody ELSE @,
            !.prod[p] = AggThreadIdle]
    /\ UNCHANGED <<poolSide, captureVars, renderVars, notAgg>>

\* try_consume(): mask_.exchange(0)
TryConsume ==
    /\ agg.cons.pc = "idle"
    /\ agg.consumes < MaxConsumes
    /\ agg' = [agg EXCEPT
            !.mask_ = {},
            !.owed = @ \ agg.mask_,
            !.consumes = @ + 1,
            !.returned = @ + 1,
            !.cons = [AggThreadIdle EXCEPT !.kind = "try", !.ret = agg.mask_]]
    /\ UNCHANGED <<poolSide, captureVars, renderVars, notAgg>>

\* wait_consume() is called: the first load of the mask, or the lock of
\* cv_m_ in the condition-variable build
WaitConsume ==
    /\ agg.cons.pc = "idle"
    /\ agg.consumes < MaxConsumes
    /\ IF agg.build = "condvar"
       THEN /\ agg.cv_m_ = Nobody
            /\ agg' = [agg EXCEPT
                    !.cv_m_ = Consumer,
                    !.consumes = @ + 1,
                    !.cons = [AggThreadIdle EXCEPT !.pc = "pred", !.kind = "wait"]]
       ELSE agg' = [agg EXCEPT
                    !.consumes = @ + 1,
                    !.cons = [AggThreadIdle EXCEPT
                                 !.pc = IF agg.mask_ = {} THEN "wait" ELSE "exchange",
                                 !.kind = "wait"]]
    /\ UNCHANGED <<poolSide, captureVars, renderVars, notAgg>>

\* wait_consume, atomic build: mask_.wait(0) blocks while the mask is 0,
\* and the load that follows it
WaitOnMask ==
    /\ agg.build = "atomic_wait"
    /\ agg.cons.pc \in {"wait", "woken"}
    /\ IF agg.mask_ = {}
       THEN agg' = [agg EXCEPT !.blocked = TRUE, !.cons.pc = "blocked"]
       ELSE agg' = [agg EXCEPT !.cons.pc = "exchange"]
    /\ UNCHANGED <<poolSide, captureVars, renderVars, notAgg>>

\* wait_consume, condition-variable build: the predicate of cv_.wait under
\* cv_m_; the wait gives the mutex up and blocks in one step
WaitOnCondition ==
    /\ agg.build = "condvar"
    /\ agg.cons.pc = "pred"
    /\ agg.cv_m_ = Consumer
    /\ IF agg.mask_ = {}
       THEN agg' = [agg EXCEPT !.blocked = TRUE, !.cv_m_ = Nobody, !.cons.pc = "blocked"]
       ELSE agg' = [agg EXCEPT !.cons.pc = "exchange"]
    /\ UNCHANGED <<poolSide, captureVars, renderVars, notAgg>>

\* cv_.wait after a wake-up: the mutex is taken again
WaitRelock ==
    /\ agg.build = "condvar"
    /\ agg.cons.pc = "woken"
    /\ agg.cv_m_ = Nobody
    /\ agg' = [agg EXCEPT !.cv_m_ = Consumer, !.cons.pc = "pred"]
    /\ UNCHANGED <<poolSide, captureVars, renderVars, notAgg>>

\* a wake-up that no notify has caused
SpuriousWake ==
    /\ agg.cons.pc = "blocked"
    /\ agg' = [agg EXCEPT !.blocked = FALSE, !.cons.pc = "woken"]
    /\ UNCHANGED <<poolSide, captureVars, renderVars, notAgg>>

\* wait_consume: return mask_.exchange(0); the unique_lock ends
WaitExchange ==
    /\ agg.cons.pc = "exchange"
    /\ agg' = [agg EXCEPT
            !.mask_ = {},
            !.owed = @ \ agg.mask_,
            !.returned = @ + 1,
            !.cv_m_ = IF @ = Consumer THEN Nobody ELSE @,
            !.cons = [AggThreadIdle EXCEPT !.kind = "wait", !.ret = agg.mask_]]
    /\ UNCHANGED <<poolSide, captureVars, renderVars, notAgg>>

\* an aggregator just constructed, of either build
InitAggregator ==
    /\ BaseIdle /\ RenderIdle /\ TilerIdle /\ DetectorIdle /\ CacheIdle /\ SharedIdle /\ MapIdle /\ WorkersIdle
    /\ \E build \in Builds : agg = NewAggregator(build)

(***************************************************************************)
(* QuadArrayManager::parallel_map: the workers and the collecting thread   *)
(***************************************************************************)
\* parallel_map(data, map_fn, opts) is called on N items, T being the
\* number of threads decided
ParallelMap(N, T, chunk_size_hint, min_items_for_parallel) ==
    /\ pm.pc = "idle"
    /\ pm' = IF N = 0 THEN [NoMap EXCEPT !.pc = "returned"]
             ELSE IF T <= 1 \/ N < min_items_for_parallel THEN map_serial(N)
             ELSE map_parallel(N, T, chunk_size_hint)
    /\ UNCHANGED <<poolSide, captureVars, renderVars, notMap>>

\* worker wid maps its next chunk, fills the slot and stores ready
WorkerStore(wid) ==
    /\ pm.pc # "idle"
    /\ wid \in DOMAIN pm.w
    /\ pm.w[wid].pc = "map"
    /\ LET c == pm.w[wid].c
           s == wrap(c * pm.chunk)
           e == Min(pm.N, wrap(s + pm.chunk))
       IN  pm' = [pm EXCEPT
                !.slots[c] = [ready |-> 1, start |-> s, end |-> e,
                              partial |-> [k \in 1..(e - s) |-> map_fn(data(s + k - 1))]],
                !.mapped = [i \in DOMAIN @ |-> IF s <= i /\ i < e THEN @[i] + 1 ELSE @[i]],
                !.produced = @ + (e - s),
                !.w[wid].pc = "signal"]
    /\ UNCHANGED <<poolSide, captureVars, renderVars, notMap>>

\* or_switch.signal(wid % 64), and the step c += T of the worker's loop
WorkerSignal(wid) ==
    /\ pm.pc # "idle"
    /\ wid \in DOMAIN pm.w
    /\ pm.w[wid].pc = "signal"
    /\ pm' = [pm EXCEPT
            !.mask_ = fetch_or(@, wid % 64),
            !.w[wid] = [pc |-> IF pm.w[wid].c + pm.T < pm.chunks THEN "map" ELSE "done",
                        c |-> pm.w[wid].c + pm.T]]
    /\ UNCHANGED <<poolSide, captureVars, renderVars, notMap>>

\* the collecting thread: or_switch.wait_consume() returns once a bit is set
CollectWait ==
    /\ pm.pc = "wait"
    /\ pm.mask_ # {}
    /\ pm' = [pm EXCEPT !.mask_ = {}, !.c = pm.next_emit \div pm.chunk, !.pc = "scan"]
    /\ UNCHANGED <<poolSide, captureVars, renderVars, notMap>>

\* the collecting thread: one turn of the loop over the slots, or its end
\* with the report of progress
CollectSlot ==
    /\ pm.pc = "scan"
    /\ IF pm.c < pm.chunks /\ pm.slots[pm.c].ready # 0
       THEN LET slot == pm.slots[pm.c]
                count == slot.end - slot.start
            IN  IF count = 0 THEN pm' = [pm EXCEPT !.c = @ + 1]
                ELSE pm' = [pm EXCEPT
                        !.out = [i \in DOMAIN @ |->
                                    IF slot.start <= i /\ i < slot.end
                                    THEN slot.partial[i - slot.start + 1] ELSE @[i]],
                        !.next_emit = slot.end,
                        !.c = @ + 1]
       ELSE pm' = [pm EXCEPT
                !.progress = Append(@, pm.next_emit),
                !.pc = IF pm.next_emit < pm.N THEN "wait" ELSE "join"]
    /\ UNCHANGED <<poolSide, captureVars, renderVars, notMap>>

\* for (auto& t : pool) t.join(); on_progress(N, N); return out
MapJoin ==
    /\ pm.pc = "join"
    /\ \A wid \in DOMAIN pm.w : pm.w[wid].pc = "done"
    /\ pm' = [pm EXCEPT !.progress = Append(@, pm.N), !.pc = "returned"]
    /\ UNCHANGED <<poolSide, captureVars, renderVars, notMap>>

\* a manager on which parallel_map has not been called
InitMap ==
    /\ BaseIdle /\ RenderIdle /\ TilerIdle /\ DetectorIdle /\ CacheIdle /\ SharedIdle
    /\ AggIdle /\ MapIdle /\ WorkersIdle

(***************************************************************************)
(* WorkerPool: submit, the workers and shutdown                            *)
(***************************************************************************)
\* the pool runs: no data race has ended the program
Running == ~wp.crashed

\* a worker is started while shutdown walks workers_ without the mutex
RacesWithJoin(p) == starts_worker(p) /\ p.sd.pc = "join"

\* submit(fn) from a thread outside the pool, up to fut.get(); a worker
\* started during the joins of shutdown is a data race on workers_, after
\* which the program goes on or ends
Submit(c) ==
    /\ Running
    /\ wp.caller[c].pc = "idle"
    /\ wp.ntasks < MaxTasks
    /\ starts_worker(wp) => wp.spawned < MaxSpawned
    /\ LET j == wp.ntasks + 1
           p == [submit_locked(wp, j, 0) EXCEPT !.caller[c] = [pc |-> "get", task |-> j]]
       IN  \/ wp' = p
           \/ RacesWithJoin(wp) /\ wp' = [p EXCEPT !.crashed = TRUE]
    /\ UNCHANGED <<poolSide, captureVars, renderVars, notPool>>

\* fut.get() returns to a caller outside the pool
SubmitReturn(c) ==
    /\ Running
    /\ wp.caller[c].pc = "get"
    /\ wp.task[wp.caller[c].task].done
    /\ wp' = [wp EXCEPT !.caller[c] = CallerIdle,
                        !.task[wp.caller[c].task].returned = TRUE]
    /\ UNCHANGED <<poolSide, captureVars, renderVars, notPool>>

\* worker_loop, top of the loop under mu_: ++idle_guess_ and the wait; the
\* worker blocks when its predicate is false
WorkerTop(w) ==
    /\ Running
    /\ wp.wk[w].pc = "top"
    /\ wp' = IF wake_pred(wp) THEN take_or_return(wp, w)
             ELSE [wp EXCEPT !.idle_guess_ = @ + 1, !.wk[w].pc = "waiting"]
    /\ UNCHANGED <<poolSide, captureVars, renderVars, notPool>>

\* worker_loop: the wait ends, --idle_guess_, and the task is taken
WorkerWake(w) ==
    /\ Running
    /\ wp.wk[w].pc = "waiting"
    /\ wake_pred(wp)
    /\ wp' = take_or_return([wp EXCEPT !.idle_guess_ = @ - 1], w)
    /\ UNCHANGED <<poolSide, captureVars, renderVars, notPool>>

\* job(): the task runs to its end and makes its future ready
WorkerRun(w) ==
    /\ Running
    /\ wp.wk[w].pc = "run"
    /\ wp' = [wp EXCEPT !.task[wp.wk[w].job].done = TRUE,
                        !.wk[w] = [NoThreadYet EXCEPT !.pc = "top"]]
    /\ UNCHANGED <<poolSide, captureVars, renderVars, notPool>>

\* job(): the task calls submit itself and waits in fut.get()
WorkerSubmit(w) ==
    /\ Running
    /\ wp.wk[w].pc = "run"
    /\ wp.ntasks < MaxTasks
    /\ starts_worker(wp) => wp.spawned < MaxSpawned
    /\ LET j == wp.ntasks + 1
           p == [submit_locked(wp, j, wp.wk[w].job) EXCEPT
                    !.wk[w].pc = "get", !.wk[w].child = j]
       IN  \/ wp' = p
           \/ RacesWithJoin(wp) /\ wp' = [p EXCEPT !.crashed = TRUE]
    /\ UNCHANGED <<poolSide, captureVars, renderVars, notPool>>

\* fut.get() returns inside a task, which goes on
WorkerResume(w) ==
    /\ Running
    /\ wp.wk[w].pc = "get"
    /\ wp.task[wp.wk[w].child].done
    /\ wp' = [wp EXCEPT !.task[wp.wk[w].child].returned = TRUE,
                        !.wk[w].pc = "run", !.wk[w].child = 0]
    /\ UNCHANGED <<poolSide, captureVars, renderVars, notPool>>

\* shutdown(): stopping_ = true under mu_, cv_.notify_all()
Shutdown ==
    /\ Running
    /\ wp.sd.pc = "idle"
    /\ wp' = [wp EXCEPT !.stopping_ = TRUE, !.sd = [pc |-> "join", i |-> 1]]
    /\ UNCHANGED <<poolSide, captureVars, renderVars, notPool>>

\* shutdown(): t.join() for the next worker, and workers_.clear() after the
\* last
ShutdownJoin ==
    /\ Running
    /\ wp.sd.pc = "join"
    /\ IF wp.sd.i > Len(wp.workers_)
       THEN wp' = [wp EXCEPT !.workers_ = << >>, !.sd = [pc |-> "idle", i |-> 0]]
       ELSE /\ wp.wk[wp.workers_[wp.sd.i]].pc = "exited"
            /\ wp' = [wp EXCEPT !.sd.i = @ + 1]
    /\ UNCHANGED <<poolSide, captureVars, renderVars, notPool>>

\* a pool just constructed
InitWorkers ==
    /\ BaseIdle /\ RenderIdle /\ TilerIdle /\ DetectorIdle /\ CacheIdle /\ SharedIdle
    /\ AggIdle /\ MapIdle
    /\ \E max_workers \in 1..MaxWorkers : wp = NewWorkerPool(max_workers)

(***************************************************************************)
(* Specifications                                                          *)
(***************************************************************************)
\* the capture thread: every path of push, step by step through the quick lane
PushSteps(images) ==
    \/ \E img \in InvalidImages, t \in 0..MaxTime : PushInvalid(img, t)
    \/ \E img \in images, t \in 0..MaxTime : PushCoalesce(img, t)
    \/ \E img \in images, t \in 0..MaxTime : PushAppend(img, t)
    \/ QuickCheck
    \/ QuickWrite
    \/ QuickStore
    \/ PushEnd

\* the capture thread and the consumer thread of the quick lane
Next ==
    \/ PushSteps(SameSizeImages \cup InvalidImages)
    \/ PopCheck
    \/ PopRead
    \/ PopStore

Spec == Init /\ [][Next]_vars

\* the capture thread and a thread that turns the knobs
NextKnobs ==
    \/ PushSteps(MixedSizeImages)
    \/ \E s \in KnobArgs : SetRetention(s)
    \/ \E mb \in 0..MaxBudgetMB : SetBudget(mb)
    \/ \E en \in BOOLEAN, g \in KnobArgs : SetSingleStaticMode(en, g)

SpecKnobs == InitKnobs /\ [][NextKnobs]_vars

\* the capture thread and a thread that reads the history
NextReaders ==
    \/ PushSteps(SameSizeImages)
    \/ \E s \in WindowArgs : Snapshot(s)
    \/ \E s \in WindowArgs, fps \in 0..MaxFps : Export(s, fps)

SpecReaders == InitReaders /\ [][NextReaders]_vars

\* a caller of the tracker: frames with and without a usable predecessor
NextTracker ==
    \E cur \in TrackerImages \cup {ImgBad}, prev \in TrackerImages \cup {NullImage},
       tsec \in 0..MaxTime : Update(cur, prev, tsec)

SpecTracker == InitTracker /\ [][NextTracker]_vars

\* the capture loop on a screen that changes or not and sometimes fails
NextLoop ==
    \/ \E raw \in ScreenImages \cup {NullImage} : Tick(raw, 0)
    \/ CaptureComplete

SpecLoop == InitLoop /\ [][NextLoop]_vars

\* the capture loop against the clock: passes of any length
NextSchedule ==
    \/ \E raw \in {ImgA, NullImage}, w \in 0..MaxWork : Tick(raw, w)
    \/ CaptureComplete

SpecSchedule == InitSchedule /\ [][NextSchedule]_vars

\* main behind its static gate
NextGate ==
    \/ \E raw \in {ImgA, ImgB, NullImage}, w \in 0..MaxWork : GatePass(raw, w)
    \/ StaticGateDone
    \/ \E raw \in {ImgA, NullImage} : Tick(raw, 0)
    \/ CaptureComplete

SpecGate == InitGate /\ [][NextGate]_vars

\* the gate's thread is not stopped for ever
SpecGateFair == SpecGate /\ WF_vars(NextGate)

\* a thread that fills and clears the correction queue, one that applies it
NextQueue ==
    \/ \E f \in Transforms \cup {NullFn}, oneshot \in BOOLEAN : Enqueue(f, oneshot)
    \/ ClearQueue
    \/ ApplyBegin(ImgD)
    \/ ApplySnapshot
    \/ ApplyRun

SpecQueue == InitQueue /\ [][NextQueue]_vars

\* the calls of a router in any order
NextRouter ==
    \/ \E dt \in 0..1 : RouterBeginFrame(dt)
    \/ \E dt \in 0..1 : RouterReset(dt)
    \/ \E tile \in 0..(MaxTiles - 1), percent \in Percents : RouterUpdate(tile, percent)
    \/ \E tile \in 0..MaxTiles : RouterDecide(tile)

SpecRouter == InitRouter /\ [][NextRouter]_vars

\* the calls of an accumulator in any order
NextAccumulator ==
    \/ \E p \in SamplePixels, weight \in 0..MaxWeight : AccAdd(p, weight)
    \/ AccClear

SpecAccumulator == InitAccumulator /\ [][NextAccumulator]_vars

\* the comparison of the two frames
NextCompare == Compare

SpecCompare == InitCompare /\ [][NextCompare]_vars

\* the engine renders frames, its workers in any interleaving
NextEngine ==
    \/ \E samples \in FramesOf(engine.width_) : RenderBegin(samples)
    \/ \E k \in DOMAIN engine.workers : WorkerFetch(k)
    \/ \E k \in DOMAIN engine.workers : WorkerPixels(k)
    \/ \E k \in DOMAIN engine.workers, lost \in BOOLEAN : WorkerUpdate(k, lost)
    \/ \E k \in DOMAIN engine.workers, route \in Routes : WorkerDecide(k, route)
    \/ RenderEnd

SpecEngine == InitEngine /\ [][NextEngine]_vars

\* a tiler is configured for frames and tiles of any size, and asked for
\* the tile of pixels inside and outside the frame
NextTiler ==
    \/ \E frame_w \in 0..MaxFrameSide, frame_h \in 0..MaxFrameSide,
          tile_w \in 0..MaxTileSide, tile_h \in 0..MaxTileSide :
          Configure(frame_w, frame_h, tile_w, tile_h)
    \/ \E x \in 0..MaxFrameSide, y \in 0..MaxFrameSide : TileIndexFromXY(x, y)

SpecTiler == InitTiler /\ [][NextTiler]_vars

\* the detector, or else the tracker, is fed frames
NextDetector ==
    \/ \E current \in TrackerImages \cup {ImgBad}, tsec \in 0..MaxTime :
          DetectorUpdate(current, tsec)
    \/ \E cur \in TrackerImages, prev \in TrackerImages \cup {NullImage},
          tsec \in 0..MaxTime : TrackerInPlace(cur, prev, tsec)

SpecDetector == InitDetector /\ [][NextDetector]_vars

\* a caller of the cache
NextCache ==
    \/ \E key \in CacheKeys, v_null \in BOOLEAN, bytes_hint \in 0..MaxHint, dt \in 0..1 :
          Put(key, v_null, bytes_hint, MaxSizeof, dt)
    \/ \E b \in 0..MaxCacheBytes : SetMaxBytes(b)

SpecCache == InitCache /\ [][NextCache]_vars

\* the threads that share a correction queue
NextShared ==
    \E t \in QueueThreads :
        \/ SharedEnqueueNull(t)
        \/ \E oneshot \in BOOLEAN : SharedEnqueue(t, oneshot)
        \/ SharedClear(t)
        \/ SharedApply(t)
        \/ SharedLock(t)
        \/ SharedPush(t)
        \/ SharedMarkDirty(t)
        \/ SharedSnapshot(t)
        \/ SharedRun(t)
        \/ SharedClearLists(t)
        \/ SharedMarkClean(t)
        \/ SharedUnlock(t)

SpecShared == InitShared /\ [][NextShared]_vars

\* the producers of an aggregator
ProducerSteps ==
    \E p \in Producers :
        \/ \E idx \in 0..(MaxProducers - 1) : Signal(p, idx)
        \/ SignalLock(p)
        \/ SignalNotify(p)

\* the steps its consumer takes of its own accord
ConsumerSteps ==
    \/ WaitOnMask
    \/ WaitOnCondition
    \/ WaitRelock
    \/ WaitExchange

NextAggregator ==
    \/ ProducerSteps
    \/ TryConsume
    \/ WaitConsume
    \/ ConsumerSteps
    \/ SpuriousWake

SpecAggregator == InitAggregator /\ [][NextAggregator]_vars

\* a producer that has set its bit goes on to notify, and a consumer that
\* can run does run; no wake-up without a notify is promised
SpecAggregatorFair ==
    /\ SpecAggregator
    /\ \A p \in Producers : WF_vars(SignalLock(p) \/ SignalNotify(p))
    /\ WF_vars(ConsumerSteps)

\* the thread counts that either version of parallel_map decides for N items
ThreadCounts(N, min_items_for_parallel) ==
    {threads_of_header(threads) : threads \in 0..MaxHw}
    \cup {decide_threads(N, MapOptions(threads, mt, kf, ad, min_items_for_parallel, tg), hw) :
             threads \in 0..MaxHw, mt \in {1, 4}, kf \in {0, 1}, ad \in BOOLEAN,
             tg \in {0, 2}, hw \in 1..MaxHw}

\* the workers of a call and its collecting thread
MapSteps ==
    \/ \E wid \in 0..(MaxHw - 1) : WorkerStore(wid) \/ WorkerSignal(wid)
    \/ CollectWait
    \/ CollectSlot
    \/ MapJoin

\* a call of parallel_map with any size, thread count and chunk size
NextMap ==
    \/ \E N \in 0..MaxItems, min_items \in {0, 3}, chunk_size_hint \in 0..(SizeMod - 1) :
          \E T \in ThreadCounts(N, min_items) : ParallelMap(N, T, chunk_size_hint, min_items)
    \/ MapSteps

SpecMap == InitMap /\ [][NextMap]_vars

\* every thread that can run does run
SpecMapFair == SpecMap /\ WF_vars(MapSteps)

\* the callers of a pool, its workers and the thread that shuts it down
NextWorkers ==
    \/ \E c \in Callers : Submit(c) \/ SubmitReturn(c)
    \/ \E w \in 1..MaxSpawned :
          \/ WorkerTop(w)
          \/ WorkerWake(w)
          \/ WorkerRun(w)
          \/ WorkerSubmit(w)
          \/ WorkerResume(w)
    \/ Shutdown
    \/ ShutdownJoin

SpecWorkers == InitWorkers /\ [][NextWorkers]_vars

(***************************************************************************)
(* Properties of the frame pool and its quick lane                         *)
(***************************************************************************)
\* the capture thread is between the append and the end of quick_lane_.push
Publishing == pc_push \in {"q_check", "q_write", "q_store"}

\* the newest entry of the deque
Newest == frames_[Len(frames_)]

\* C1: coalesce on identity.  Every maximal run of consecutive byte-identical
\* valid pushes has created exactly one deque entry, which is the newest entry
\* and holds the image of the run, and has led to exactly one publication on
\* the quick lane (one call of quick_lane_.push, taken or refused by the ring);
\* so a push that differs from the tail makes one entry and one publication
\* and a push that repeats it makes none.
C1_CoalesceOnIdentity ==
    /\ Len(appended) = runs
    /\ Len(accepted) + Len(dropped) + (IF Publishing THEN 1 ELSE 0) = runs
    /\ runs > 0 =>
          /\ frames_ # <<>>
          /\ Newest.img = run_img
          /\ Newest.index = appended[Len(appended)]
          /\ Newest.tsec = run_start

\* a second run of identical pushes, three pushes long, has been coalesced
\* and published once
C1_Witness ==
    /\ runs = 2
    /\ pc_push = "idle"
    /\ op.name = "push_coalesce"
    /\ Newest.run_len = 3
    /\ Len(appended) = 2
    /\ Len(accepted) = 2

\* the retention bound of the deque for the knobs as they are now
RetentionBound ==
    /\ Len(frames_) >= 1
    /\ \/ Len(frames_) = 1
       \/ /\ frames_[1].t_end >= latest_ts_ - dynamic_retention_sec_
          /\ total_bytes_ <= budget_bytes_

\* the deque holds the last entries created, in the order of their creation
IsSuffixOfAppended ==
    /\ Len(frames_) <= Len(appended)
    /\ \A i \in 1..Len(frames_) :
          frames_[i].index = appended[Len(appended) - Len(frames_) + i]

\* C2: retention bound.  When a push of a valid image has returned, the deque
\* has at least one frame and either exactly one, or its oldest frame ends
\* within the retention window and the bytes are within the budget; what is
\* left is a suffix of the entries created (eviction takes from the front
\* only) that ends with the newest frame, so over budget it is that frame alone.
C2_RetentionBound ==
    op.name \in {"push_append", "push_coalesce"} =>
        /\ RetentionBound
        /\ IsSuffixOfAppended
        /\ Newest.img = run_img
        /\ Newest.t_end = latest_ts_
        /\ (Newest.img.null \/ Len(Newest.img.bgra) > budget_bytes_) => Len(frames_) = 1

\* a push has evicted by time the oldest of three entries and kept two
C2_Witness ==
    /\ op.name = "push_append"
    /\ Len(appended) = 3
    /\ Len(frames_) = 2
    /\ budget_bytes_ > 0
    /\ dynamic_retention_sec_ = 1

\* a push has evicted by budget down to the newest frame, which is over budget
C2_WitnessOverBudget ==
    /\ op.name = "push_append"
    /\ Len(appended) = 3
    /\ Len(frames_) = 1
    /\ dynamic_retention_sec_ > MaxTime
    /\ total_bytes_ > budget_bytes_

\* C3 as stated: once a run of identical pushes has lasted longer than
\* static_grace_sec, counted from the first push of the run, the deque has
\* exactly one frame after each identical push.
C3_AsStated ==
    (op.name = "push_coalesce" /\ clock - run_start > static_grace_sec_) =>
        Len(frames_) = 1

\* C3, amended: with single-static mode enabled, an identical push that comes
\* at least static_grace_sec after static_since (the first push of the run
\* that was coalesced while the mode was on; the push that opened the run
\* does not count) leaves exactly one frame in the deque, the coalesced one;
\* and whenever the deque has one frame a further identical push leaves one.
C3_StaticCollapse ==
    /\ [](  (/\ op.name = "push_coalesce"
             /\ single_static_mode_
             /\ clock - static_since_ts_ >= static_grace_sec_)
          => (/\ Len(frames_) = 1
              /\ in_static_run_
              /\ static_since_ts_ > run_start
              /\ Newest.img = run_img
              /\ Newest.run_len >= 2
              /\ total_bytes_ = Len(Newest.img.bgra)))
    /\ [][(Len(frames_) = 1 /\ op'.name = "push_coalesce") => Len(frames_') = 1]_vars

\* two older frames have been dropped by a static run that reached its grace
C3_Witness ==
    /\ op.name = "push_coalesce"
    /\ single_static_mode_
    /\ static_grace_sec_ > 0
    /\ clock - static_since_ts_ = static_grace_sec_
    /\ Len(appended) = 2
    /\ Len(frames_) = 1
    /\ dynamic_retention_sec_ > MaxTime
    /\ budget_bytes_ > 0

\* number of handles accepted by the quick lane and not yet returned by a pop
InFlight == Len(accepted) - Len(delivered)

\* C4: FIFO.  The handles returned by pop are, in order, the first handles
\* accepted by push; every accepted handle not yet returned sits in its slot
\* of the ring (or in the hands of a pop that has read it), so none is lost,
\* repeated or reordered; and pop returns false only when nothing is pending.
C4_Fifo ==
    /\ Len(delivered) <= Len(accepted)
    /\ \A i \in 1..Len(delivered) : delivered[i] = accepted[i]
    /\ \A i \in 1..Len(accepted) : \A j \in 1..Len(accepted) :
          i # j => accepted[i].frame.index # accepted[j].frame.index
    /\ \A i \in (Len(delivered) + 1)..Len(accepted) :
          IF i = Len(delivered) + 1 /\ pc_pop = "store"
          THEN pop_out = accepted[i]
          ELSE buf_[Slot(i - 1)] = accepted[i]
    /\ op.name = "pop_empty" => InFlight = 0
    /\ pc_pop \in {"read", "store"} => InFlight > 0

\* the ring of two slots has wrapped around: a third handle went through it
\* while the producer was publishing the next one
C4_Witness ==
    /\ cap_ = 2
    /\ Len(delivered) = 3
    /\ op.name = "pop"
    /\ pc_push = "q_store"

\* n is a power of two
IsPow2(n) == \E k \in 0..(MaxCapReq + 1) : n = 2 ^ k

\* C5: capacity.  The capacity N is the requested one rounded up to a power
\* of two (and at least 2); never more than N handles are in flight; a push
\* is refused exactly when N are in flight; and a refused push changes no
\* slot and no index of the ring.
C5_Capacity ==
    /\ [](/\ IsPow2(cap_)
          /\ cap_ >= cap_req
          /\ cap_ >= 2
          /\ cap_req > 2 => cap_ < 2 * cap_req
          /\ cap_req <= 2 => cap_ = 2
          /\ InFlight <= cap_
          /\ InFlight = head_ - tail_
          /\ op.name = "quick_drop" => InFlight = cap_
          /\ pc_push \in {"q_write", "q_store"} => InFlight < cap_)
    /\ [][op'.name = "quick_drop" =>
             (/\ buf_' = buf_ /\ head_' = head_ /\ tail_' = tail_
              /\ accepted' = accepted /\ pc_push' = "evict")]_vars

\* a ring asked for 1 slot holds 2 handles and has refused the third push
C5_Witness ==
    /\ cap_req = 1
    /\ cap_ = 2
    /\ op.name = "quick_drop"
    /\ InFlight = 2

\* a frame of the quick lane as push builds it: every field set, the
\* signature that of the image, the run not yet extended
FullyInitialised(ref) ==
    /\ ~ref.null
    /\ ~ref.frame.img.null
    /\ ok(ref.frame.img)
    /\ ref.frame.sig = compute_operand_map(ref.frame.img)
    /\ ref.frame.sig # EmptyOperandMap
    /\ ref.frame.t_end = ref.frame.tsec
    /\ ref.frame.run_len = 1
    /\ \E i \in 1..Len(appended) : appended[i] = ref.frame.index

\* C6: what the consumer holds was published whole.  Every handle that pop
\* has read or returned is a fully initialised frame, and the push that
\* published it had by then stored it and released head_: it is the handle
\* that push accepted at that position, not an empty or overwritten slot.
C6_PublishedWhole ==
    /\ \A i \in 1..Len(delivered) :
          /\ FullyInitialised(delivered[i])
          /\ i <= Len(accepted)
          /\ delivered[i].frame = accepted[i].frame
    /\ pc_pop = "store" =>
          /\ FullyInitialised(pop_out)
          /\ Len(delivered) < Len(accepted)
          /\ pop_out.frame = accepted[Len(delivered) + 1].frame

\* the consumer has read a frame while the capture thread is writing the
\* next one into the ring
C6_Witness ==
    /\ pc_pop = "store"
    /\ pc_push = "q_write"
    /\ Len(delivered) = 1

\* the indices of the frames held by a sequence of handles
Indices(refs) == {refs[i].frame.index : i \in 1..Len(refs)}

\* C7: a full quick lane.  A changed frame whose publication the full ring
\* refuses is in the history all the same (the newest entry when push goes
\* on to evict), push can always go on to its eviction and return, after
\* which the retention bound holds; the refused frame is in no slot of the
\* ring and is never accepted nor handed to the consumer.
C7_FullQuickLane ==
    /\ \A i \in 1..Len(dropped) :
          /\ dropped[i] \notin Indices(accepted)
          /\ dropped[i] \notin Indices(delivered)
          /\ \A k \in 0..(cap_ - 1) : buf_[k].null \/ buf_[k].frame.index # dropped[i]
          /\ pop_out.null \/ pop_out.frame.index # dropped[i]
          /\ \E j \in 1..Len(appended) : appended[j] = dropped[i]
    /\ op.name = "quick_drop" =>
          /\ pc_push = "evict"
          /\ Newest.index = dropped[Len(dropped)]
          /\ Newest.img = run_img
    /\ pc_push = "evict" => ENABLED PushEnd
    /\ (op.name = "push_append" /\ dropped # <<>>
           /\ dropped[Len(dropped)] = appended[Len(appended)]) =>
          /\ RetentionBound
          /\ Newest.index = dropped[Len(dropped)]

\* a frame was refused by the full ring of two slots, its push has returned
\* after evicting, and the consumer has since drained the ring
C7_Witness ==
    /\ cap_ = 2
    /\ Len(dropped) = 1
    /\ Len(appended) = 3
    /\ Len(frames_) < 3
    /\ pc_push = "idle"
    /\ Len(delivered) = 2
    /\ op.name = "pop_empty"

\* C8: a push identical to the tail makes no entry and no publication.  It
\* sets the tail's t_end to the push time and adds one to its run_len; the
\* tail's index, start time, image and signature stay, and every other entry
\* still in the deque is unchanged and in its place before the tail (older
\* entries may only leave from the front).
C8_IdenticalPushExtends ==
    [][op'.name = "push_coalesce" =>
         LET n == Len(frames_)
             m == Len(frames_')
         IN  /\ n >= 1
             /\ m >= 1
             /\ m <= n
             /\ frames_'[m] = [frames_[n] EXCEPT !.t_end = clock', !.run_len = @ + 1]
             /\ frames_'[m].index = frames_[n].index
             /\ frames_'[m].tsec = frames_[n].tsec
             /\ frames_'[m].img = frames_[n].img
             /\ frames_'[m].sig = frames_[n].sig
             /\ \A i \in 1..(m - 1) : frames_'[i] = frames_[n - m + i]
             /\ appended' = appended
             /\ accepted' = accepted
             /\ dropped' = dropped
             /\ buf_' = buf_
             /\ head_' = head_
             /\ pc_push' = "idle"]_vars

\* a frame has been extended twice and an older frame is still before it
C8_Witness ==
    /\ op.name = "push_coalesce"
    /\ Len(frames_) = 2
    /\ Newest.run_len = 3
    /\ Newest.t_end > Newest.tsec
    /\ frames_[1].run_len = 1

\* the frames of the deque that start at or after the cutoff, oldest first
StartingSince(cutoff) == SelectSeq(frames_, LAMBDA f : f.tsec >= cutoff)

\* C9: snapshot_recent(last_seconds) returns, oldest first, the frames whose
\* start is at or after latest - last_seconds, which are the newest frames of
\* the deque; when no frame starts that late it returns the newest frame
\* alone, and nothing only when the deque is empty.
C9_SnapshotRecent ==
    op.name = "snapshot" =>
        IF frames_ = <<>> THEN op.clip = <<>>
        ELSE LET want == StartingSince(latest_ts_ - op.arg)
             IN  /\ op.clip # <<>>
                 /\ op.clip[Len(op.clip)] = Newest
                 /\ op.clip = (IF want = <<>> THEN <<Newest>> ELSE want)
                 /\ \A i \in 1..Len(op.clip) :
                       op.clip[i] = frames_[Len(frames_) - Len(op.clip) + i]

\* a snapshot of window 0 of a deque whose newest frame started before the
\* latest push: no frame qualifies and the newest is returned
C9_Witness ==
    /\ op.name = "snapshot"
    /\ op.arg = 0
    /\ Len(frames_) = 2
    /\ Newest.tsec < latest_ts_
    /\ op.clip = <<Newest>>

\* a snapshot that returns two of three frames
C9_WitnessWindow ==
    /\ op.name = "snapshot"
    /\ op.arg > 0
    /\ Len(frames_) = 3
    /\ Len(op.clip) = 2

RECURSIVE SumSeq(_)
SumSeq(s) == IF s = <<>> THEN 0 ELSE Head(s) + SumSeq(Tail(s))

\* n is num / den rounded to the nearest integer, halves upward
IsRounded(n, num, den) == 2 * n * den - den <= 2 * num /\ 2 * num < 2 * n * den + den

\* the number of copies of a frame that spans `span` ticks at `fps`
CopiesFor(span, fps) ==
    CHOOSE r \in 1..(MaxTime * MaxFps + 2) :
        \E n \in 0..(MaxTime * MaxFps + 2) :
            /\ IsRounded(n, span * fps, TicksPerSec)
            /\ r = Max(1, n)

\* the number of BMPs written for the frame of the given index
WrittenFor(index) == Cardinality({k \in 1..Len(op.written) : op.written[k] = index})

\* C10 as stated: the export (at a frame rate of at least 1) writes
\* max(1, round((t_end - t_start) * fps)) copies of each frame of the
\* snapshot, and that many in all.
C10_AsStated ==
    (op.name = "export" /\ op.fps >= 1) =>
        /\ \A i \in 1..Len(op.clip) :
              WrittenFor(op.clip[i].index)
                  = CopiesFor(op.clip[i].t_end - op.clip[i].tsec, op.fps)
        /\ Len(op.written)
              = SumSeq([i \in 1..Len(op.clip) |->
                          CopiesFor(op.clip[i].t_end - op.clip[i].tsec, op.fps)])

\* the time a frame of the clip is taken to last: its own run when it was
\* coalesced, else the time to the start of the next frame of the clip
SpanOf(clip, i) ==
    IF clip[i].t_end > clip[i].tsec THEN clip[i].t_end - clip[i].tsec
    ELSE IF i < Len(clip) THEN clip[i + 1].tsec - clip[i].tsec
    ELSE 0

\* C10, amended: the export writes, frame after frame in the order of the
\* snapshot, max(1, round(span * max(1, fps))) copies of each frame, where
\* span is t_end - t_start for a coalesced frame and otherwise the time to
\* the start of the next frame of the snapshot (0 for the last); the number
\* of files is the sum of these, and each frame's copies differ from
\* span * fps by at most one frame.
C10_ExportExtent ==
    op.name = "export" =>
        LET fps == Max(1, op.fps)
            reps == [i \in 1..Len(op.clip) |-> CopiesFor(SpanOf(op.clip, i), fps)]
        IN  /\ Len(op.written) = SumSeq(reps)
            /\ \A i \in 1..Len(op.clip) :
                  /\ WrittenFor(op.clip[i].index) = reps[i]
                  /\ reps[i] * TicksPerSec - TicksPerSec <= SpanOf(op.clip, i) * fps
                  /\ SpanOf(op.clip, i) * fps <= reps[i] * TicksPerSec + TicksPerSec
            /\ \A k \in 1..(Len(op.written) - 1) : op.written[k] <= op.written[k + 1]
            /\ op.clip = snapshot_recent(frames_, latest_ts_, op.arg)

\* an export at 3 frames per second of a frame that was never coalesced and
\* is followed a tick later by a coalesced frame: two copies of the first
C10_Witness ==
    /\ op.name = "export"
    /\ op.fps = 3
    /\ Len(op.clip) = 2
    /\ op.clip[1].t_end = op.clip[1].tsec
    /\ op.clip[2].tsec = op.clip[1].tsec + 1
    /\ op.clip[2].t_end > op.clip[2].tsec
    /\ WrittenFor(op.clip[1].index) = 2

(***************************************************************************)
(* Properties of the activity tracker                                      *)
(***************************************************************************)
\* the largest element of a non-empty set of integers
MaxOf(S) == CHOOSE x \in S : \A y \in S : y <= x

\* the end of the block window, by the high-activity frames seen so far
\* (before the first of them there is no window)
WindowEnd ==
    IF upd.highs = {} THEN never_high
    ELSE MaxOf(upd.highs) + tracker.cfg_.dedupe_pause_sec

\* C14 as stated: at every update at time t, allow_dedupe = (t >=
\* dedupe_block_until) and dedupe_block = not allow_dedupe.
C14_AsStated ==
    upd.called =>
        /\ upd.d.allow_dedupe = (upd.t >= WindowEnd)
        /\ upd.d.dedupe_block = ~upd.d.allow_dedupe

\* C14, amended: dedupe_block_until is the time of the most recent
\* high-activity frame plus dedupe_pause_sec (no window before the first such
\* frame), so that mid-band and static frames never start or extend it; every
\* update has dedupe_block = not allow_dedupe; an update that compares the
\* frame with a usable previous frame has allow_dedupe = (t >=
\* dedupe_block_until), and an update without one has allow_dedupe = true
\* whatever the window.
C14_BlockWindow ==
    /\ tracker.dedupe_block_until_ = WindowEnd
    /\ upd.called =>
        /\ upd.d.dedupe_block = ~upd.d.allow_dedupe
        /\ upd.compared => upd.d.allow_dedupe = (upd.t >= WindowEnd)
        /\ ~upd.compared => upd.d.allow_dedupe
        /\ ~upd.class.is_high =>
               tracker.dedupe_block_until_ = upd.before.dedupe_block_until_

\* a mid-band frame that comes when the window of an earlier high-activity
\* frame is over: it is free to be deduplicated
C14_Witness ==
    /\ upd.called
    /\ upd.class.is_mid
    /\ upd.highs # {}
    /\ tracker.cfg_.dedupe_pause_sec > 0
    /\ upd.t = WindowEnd
    /\ upd.d.allow_dedupe

\* the two waits of the awake latch are over at the last update
WaitsOver ==
    /\ upd.t - tracker.static_start_ >= tracker.cfg_.static_reset_sec
    /\ upd.t - upd.before.last_high_time_ >= tracker.cfg_.dedupe_pause_sec

\* C15: the awake latch.  Every high-activity or mid-band frame leaves awake
\* set; awake goes from true to false only at a static frame at which both
\* t - static_start >= static_reset_sec and t - last_high_time >=
\* dedupe_pause_sec hold, and a static frame that is not high-activity at
\* which both hold leaves it cleared; an update that compares nothing leaves
\* the latch as it was.
C15_AwakeLatch ==
    upd.called =>
        /\ (upd.class.is_high \/ upd.class.is_mid) => tracker.scene_awake_
        /\ (upd.before.scene_awake_ /\ ~tracker.scene_awake_) =>
               (upd.class.is_static /\ WaitsOver)
        /\ (upd.class.is_static /\ ~upd.class.is_high /\ WaitsOver) =>
               ~tracker.scene_awake_
        /\ ~upd.compared => tracker.scene_awake_ = upd.before.scene_awake_

\* a static frame clears the latch that a high-activity frame had set, after
\* waits that are not zero
C15_Witness ==
    /\ upd.called
    /\ upd.class.is_static
    /\ upd.before.scene_awake_
    /\ ~tracker.scene_awake_
    /\ upd.highs # {}
    /\ tracker.cfg_.static_reset_sec > 0
    /\ tracker.cfg_.dedupe_pause_sec > 0

(***************************************************************************)
(* Properties of the capture loop                                          *)
(***************************************************************************)
\* the passes of the capture loop that captured a frame
Captured == {i \in 1..Len(trail) : trail[i].captured}

\* the last pass before pass i that captured a frame, 0 when there is none
PrevCap(i) ==
    IF \E j \in Captured : j < i
    THEN MaxOf({j \in Captured : j < i})
    ELSE 0

\* pass i captured what the pass before it captured, byte for byte
SameAsBefore(i) == PrevCap(i) # 0 /\ trail[i].raw = trail[PrevCap(i)].raw

\* pass i captured the first frame of a run of identical captures
FirstOfRun(i) == i \in Captured /\ ~SameAsBefore(i)

\* pass j captured a frame far enough from its predecessor to be high activity
HighAt(j) ==
    /\ j \in Captured
    /\ PrevCap(j) # 0
    /\ Classify(tracker.cfg_,
                sampled_diff_ratio(trail[j].raw, trail[PrevCap(j)].raw,
                                   tracker.cfg_.sample_stride,
                                   tracker.cfg_.channel_thr)).is_high

\* pass i falls into the block window of a high-activity frame
InWindowAt(i) ==
    /\ main.adaptive_enabled
    /\ \E j \in 1..i :
          /\ HighAt(j)
          /\ tick_time(trail[i].f, main.fps)
                 < tick_time(trail[j].f, main.fps) + tracker.cfg_.dedupe_pause_sec

RECURSIVE WrittenFrom(_)
\* the files that the passes from i on should have left: name and image
WrittenFrom(i) ==
    IF i > Len(trail) THEN <<>>
    ELSE (IF trail[i].wrote
          THEN <<[name |-> Digits(trail[i].f, 6), img |-> trail[i].raw]>>
          ELSE <<>>) \o WrittenFrom(i + 1)

\* the recorder's files are those of the passes that wrote, named by the
\* index of their pass, and duplicates_skipped counts the other captures
FilesAsWritten ==
    /\ files = WrittenFrom(1)
    /\ \A i \in 1..Len(trail) : trail[i].f = i - 1
    /\ loop.skipped_dupes = Cardinality({i \in Captured : ~trail[i].wrote})

\* the images captured by the passes so far, NullImage for a failed capture
Raws == [i \in 1..Len(trail) |-> trail[i].raw]

\* the indices in the names of the files
FileIndices == [k \in 1..Len(files) |-> trail[CHOOSE i \in 1..Len(trail) :
                    Digits(trail[i].f, 6) = files[k].name].f]

\* the flags of main are the default ones (recording apart)
DefaultFlags == main.pc # "off" /\ main.adaptive_enabled /\ ~main.grayscale

C12_AsStated ==
    (main.pc # "off" /\ main.recording) =>
        \A i \in Captured : trail[i].wrote <=> (trail[i].block \/ ~SameAsBefore(i))

\* C13 as stated: the duplicate decision is taken on frames in the same
\* processing state: the signature kept for the previous frame is that of
\* the frame kept, and two consecutive captures with identical raw content
\* are classified identical when dedupe is allowed, with or without a
\* persistent correction.
C13_AsStated ==
    main.pc # "off" =>
        /\ loop.have_prev => loop.prev_sig = compute_operand_map(loop.prev)
        /\ \A i \in Captured :
              (SameAsBefore(i) /\ ~trail[i].block) => trail[i].identical

(***************************************************************************)
(* Properties of the static gate                                           *)
(***************************************************************************)
\* the gate returned ok
GateOk == gate.pc = "done" /\ gate.out.ok

\* the gate returned without ok
GateFailed == gate.pc = "done" /\ ~gate.out.ok

\* C16 as stated: the counter of consecutive identical captures goes up by
\* one on a capture identical to the previous one and is reset on a
\* mismatch, and the gate returns ok only when counter / fps_hint is at least
\* the required static seconds, with stable_seconds at least that too; it
\* cannot succeed before it has captured as many frames as the required
\* seconds hold at fps_hint.
C16_AsStated ==
    main.pc # "off" =>
        /\ gate.pass.captured =>
              gate.streak = IF gate.pass.identical THEN gate.pass.before + 1 ELSE 1
        /\ GateOk =>
              /\ gate.streak * TicksPerSec >= gate.min_stable_sec * gate.fps_hint
              /\ gate.out.stable_seconds.streak * TicksPerSec
                     >= gate.min_stable_sec * gate.out.stable_seconds.fps
              /\ gate.out.frames_observed * TicksPerSec
                     >= gate.min_stable_sec * gate.fps_hint

\* C17 as stated: whenever the required static seconds are greater than the
\* timeout the gate times out and returns ok = false, whatever is captured.
C17_AsStated ==
    (main.pc # "off" /\ main.require_static /\ main.static_sec > main.static_timeout) =>
        ~GateOk

\* a pass of the gate's loop that went past the timeout test began before the
\* timeout had elapsed
GateBoundedByTimeout ==
    (gate.pc = "loop" /\ gate.pass.n > 0) =>
        gate.pass.start - gate.t0 < gate.timeout_sec

\* a gate that never saw the required run of identical captures returns
\* ok = false and says why
GateFailsWithoutRun ==
    /\ GateOk => (gate.run >= gate.needed /\ gate.streak >= gate.needed)
    /\ (gate.pc = "done" /\ gate.streak < gate.needed) =>
          /\ GateFailed
          /\ gate.out.message = "Timeout: scene did not become static."

\* after a failed gate main ends with status 2 and the capture loop never runs
FailedGateEndsMain ==
    GateFailed =>
        /\ main.pc \in {"gate", "exit"}
        /\ main.pc = "exit" => main.exit_code = 2
        /\ trail = <<>> /\ files = <<>> /\ pool_calls = <<>>
        /\ loop = LoopStart(0)

\* C18: the gate always returns, no later than the first pass of its loop
\* that starts once timeout_sec has elapsed, also when every capture fails;
\* when the required run of identical captures was never seen it returns
\* ok = false with the message of the timeout, and main then ends with
\* status 2 and the capture loop does not run.
C18_GateTerminates ==
    /\ <>(gate.pc = "done")
    /\ [](GateFailed => <>(main.pc = "exit" /\ main.exit_code = 2))
    /\ [](main.pc # "off" =>
            GateBoundedByTimeout /\ GateFailsWithoutRun /\ FailedGateEndsMain)

\* a gate that ran out of time without one capture, and main ended by it
C18_Witness ==
    /\ GateFailed
    /\ gate.timeout_sec > 0
    /\ gate.out.frames_observed = 0
    /\ gate.pass.n > 1
    /\ main.pc = "exit"
    /\ main.exit_code = 2

(***************************************************************************)
(* Properties of failed captures and of the schedule                       *)
(***************************************************************************)
\* the passes before pass i that captured a frame
CapturedBefore(i) == {j \in Captured : j < i}

\* what a failed capture must leave alone by both readings: nothing is
\* pushed, written or counted for it, and the frame kept for the duplicate
\* test is that of the last capture
FailedPassesLeaveNoTrace ==
    /\ Len(pool_calls) = Cardinality(Captured)
    /\ \A i \in 1..Len(trail) : trail[i].wrote => i \in Captured
    /\ Len(files) = Cardinality({i \in Captured : trail[i].wrote})
    /\ loop.frames_captured = Cardinality(Captured)
    /\ loop.frames_unique + loop.frames_duplicates = Cardinality(Captured)
    /\ loop.have_prev = (Captured # {})
    /\ loop.have_prev =>
          /\ loop.prev = apply_all(trail[MaxOf(Captured)].raw, main.grayscale)
          /\ loop.prev_sig = compute_operand_map(trail[MaxOf(Captured)].raw)
    /\ upd.called => \E i \in Captured : trail[i].asked

\* C19 as stated: a failed capture skips the tick: nothing is pushed to the
\* pool, nothing is written, the dedupe state stays, and the frame counter is
\* not advanced, so that the next successful frame gets the index the failed
\* one would have had.
C19_AsStated ==
    main.pc # "off" =>
        /\ FailedPassesLeaveNoTrace
        /\ loop.f = Cardinality(Captured)
        /\ \A i \in Captured : trail[i].f = Cardinality(CapturedBefore(i))

\* C19, amended: a failed capture pushes nothing to the pool, writes nothing,
\* counts no captured frame and leaves the previous-frame dedupe state and the
\* tracker alone, but it uses up its pass: the loop index f is advanced, so
\* the next successful frame gets the index after the failed one and the run
\* yields one frame less; the loop goes on to the next pass at once, without
\* sleeping and without moving the deadline.
C19_FailedTick ==
    main.pc # "off" =>
        /\ FailedPassesLeaveNoTrace
        /\ loop.f = Len(trail)
        /\ \A i \in 1..Len(trail) : trail[i].f = i - 1
        /\ \A k \in 1..Len(pool_calls) :
              \E i \in Captured :
                  /\ Cardinality(CapturedBefore(i)) = k - 1
                  /\ pool_calls[k].index = i - 1
        /\ \A i \in 1..(Len(trail) - 1) :
              ~trail[i].captured => trail[i + 1].start = trail[i].start + trail[i].w
        /\ main.total_frames > 1 =>
              loop.next_time
                  = loop.start + Cardinality(Captured) * frame_interval(main.fps)

\* a capture, a failed capture and a capture: files 000000 and 000002
C19_Witness ==
    /\ main.pc = "exit"
    /\ Raws = <<ImgA, NullImage, ImgB>>
    /\ Len(files) = 2
    /\ files[1].name = <<0, 0, 0, 0, 0, 0>>
    /\ files[2].name = <<0, 0, 0, 0, 0, 2>>
    /\ Len(pool_calls) = 2
    /\ pool_calls[2].index = 2

\* the deadline a pass that captured sleeps to
DeadlineAfter(i) ==
    loop.start + Cardinality({j \in Captured : j <= i}) * frame_interval(main.fps)

\* every pass so far captured a frame
NoFailedCapture == Captured = 1..Len(trail)

\* C20 as stated: pass k starts on the absolute grid start + k * period, and
\* after an overrun the passes are not run back to back: two consecutive
\* passes are never closer together than one period.
C20_AsStated ==
    (main.pc # "off" /\ main.total_frames > 1 /\ NoFailedCapture) =>
        /\ \A i \in 1..Len(trail) :
              (trail[i].start - loop.start) % frame_interval(main.fps) = 0
        /\ \A i \in 1..(Len(trail) - 1) :
              trail[i + 1].start - trail[i].start >= frame_interval(main.fps)

\* C20, amended: the deadlines are absolute, deadline k = start + k * period
\* for the k-th successful capture, and a pass that captured sleeps until its
\* deadline; so while no pass overruns and no capture fails pass k starts at
\* start + k * period.  After an overrun the sleep returns at once and the
\* following passes run back to back until the schedule is caught up; no
\* pass is skipped, the loop makes total_frames passes whatever their
\* lateness.
C20_AbsoluteSchedule ==
    (main.pc # "off" /\ main.total_frames > 1) =>
        /\ loop.f = Len(trail)
        /\ Len(trail) <= main.total_frames
        /\ main.pc = "exit" => Len(trail) = main.total_frames
        /\ loop.next_time = DeadlineAfter(Len(trail))
        /\ Len(trail) > 0 => trail[1].start = loop.start
        /\ \A i \in 1..(Len(trail) - 1) :
              trail[i + 1].start =
                  IF trail[i].captured
                  THEN Max(trail[i].start + trail[i].w, DeadlineAfter(i))
                  ELSE trail[i].start + trail[i].w
        /\ now = IF Len(trail) = 0 THEN loop.start
                 ELSE IF trail[Len(trail)].captured
                 THEN Max(trail[Len(trail)].start + trail[Len(trail)].w,
                          DeadlineAfter(Len(trail)))
                 ELSE trail[Len(trail)].start + trail[Len(trail)].w
        /\ (NoFailedCapture
              /\ \A i \in 1..Len(trail) : trail[i].w <= frame_interval(main.fps)) =>
              \A i \in 1..Len(trail) :
                  trail[i].start = loop.start + (i - 1) * frame_interval(main.fps)

\* a pass that overran its period, and the two passes after it started
\* within less than a period of each other
C20_Witness ==
    /\ main.total_frames > 1
    /\ NoFailedCapture
    /\ \E i \in 1..(Len(trail) - 2) :
          /\ trail[i].w > frame_interval(main.fps)
          /\ trail[i + 1].start = trail[i].start + trail[i].w
          /\ trail[i + 2].start - trail[i + 1].start < frame_interval(main.fps)

(***************************************************************************)
(* Properties of the correction queue                                      *)
(***************************************************************************)
\* the apply_all calls that have returned, and the transforms enqueued; a
\* call is named by its place in the history
Applies == QueueCalls("apply")
Registered == QueueCalls("persistent") \cup QueueCalls("oneshot")

\* the transforms that the apply_all call c ran
RanBy(c) == {cq.history[c].ran[i] : i \in 1..Len(cq.history[c].ran)}

\* clear() was called after the transform k was enqueued and before the
\* moment t, a number of calls made
ClearedBy(k, t) == \E j \in QueueCalls("clear") : k < j /\ j <= t

\* the apply_all calls that took their snapshot after k was enqueued
SnapshotsAfter(k) == {c \in Applies : cq.history[c].snap >= k}

\* the first of a set of calls
FirstOf(S) == CHOOSE c \in S : \A d \in S : c <= d

\* when the call c looked at the queue nothing was left in it: every
\* transform enqueued till then had been cleared or was a one-shot already run
NoneLeftFor(c) ==
    \A k \in Registered :
        k <= cq.history[c].snap =>
            \/ ClearedBy(k, cq.history[c].snap)
            \/ /\ cq.history[k].kind = "oneshot"
               /\ \E d \in Applies : d < c /\ k \in RanBy(d)

\* C21: apply_all on an empty queue (never filled, one-shots all drained and
\* no persistent transform, or cleared) leaves the image as it is and
\* returns false.
C21_EmptyIsIdentity ==
    \A c \in Applies :
        NoneLeftFor(c) =>
            /\ cq.history[c].ret = FALSE
            /\ cq.history[c].after = cq.history[c].before
            /\ cq.history[c].ran = <<>>

\* an apply_all on a queue whose one-shot was drained by the call before and
\* another on a queue that was cleared
C21_Witness ==
    \E c \in Applies, d \in Applies :
        /\ d < c
        /\ NoneLeftFor(c)
        /\ RanBy(d) # {}
        /\ \E k \in Registered : ClearedBy(k, cq.history[c].snap)
        /\ ok(cq.history[c].before)
        /\ cq.history[c].ret = FALSE

\* no call runs a transform twice
RunsOnce(c) ==
    \A i, j \in 1..Len(cq.history[c].ran) :
        cq.history[c].ran[i] = cq.history[c].ran[j] => i = j

\* C22 as stated, an apply_all taken to start when it takes its snapshot: a
\* one-shot transform is run by exactly one apply_all call, the first after
\* it was enqueued; a persistent one by every call after it was enqueued,
\* until clear() is called.
C22_AsStated ==
    /\ \A k \in QueueCalls("oneshot") :
          /\ SnapshotsAfter(k) # {} => k \in RanBy(FirstOf(SnapshotsAfter(k)))
          /\ \A c \in Applies : k \in RanBy(c) => c = FirstOf(SnapshotsAfter(k))
    /\ \A k \in QueueCalls("persistent"), c \in Applies :
          k \in RanBy(c) <=>
              (c \in SnapshotsAfter(k) /\ ~ClearedBy(k, cq.history[c].snap))

\* C22, amended: a one-shot transform is run by at most one apply_all call:
\* by the first call that takes its snapshot after the transform was
\* enqueued, unless clear() was called in between, and then by none; a
\* persistent transform is run by every call that takes its snapshot after
\* the transform was enqueued and before the next clear().
C22_Lifetimes ==
    /\ \A k \in QueueCalls("oneshot"), c \in Applies :
          k \in RanBy(c) <=>
              /\ c \in SnapshotsAfter(k)
              /\ c = FirstOf(SnapshotsAfter(k))
              /\ ~ClearedBy(k, cq.history[c].snap)
    /\ \A k \in QueueCalls("persistent"), c \in Applies :
          k \in RanBy(c) <=>
              (c \in SnapshotsAfter(k) /\ ~ClearedBy(k, cq.history[c].snap))
    /\ \A c \in Applies : RunsOnce(c) /\ RanBy(c) \subseteq Registered

\* a one-shot run by the first of two calls and not by the second, next to a
\* persistent transform run by both
C22_Witness ==
    \E k \in QueueCalls("oneshot"), p \in QueueCalls("persistent"),
       c \in Applies, d \in Applies :
        /\ c < d
        /\ k \in RanBy(c) /\ k \notin RanBy(d)
        /\ p \in RanBy(c) /\ p \in RanBy(d)

\* C23 as stated: of two transforms that run in one apply_all call the one
\* enqueued earlier runs first, persistent or one-shot.
C23_AsStated ==
    \A c \in Applies :
        \A i, j \in 1..Len(cq.history[c].ran) :
            i < j => cq.history[c].ran[i] < cq.history[c].ran[j]

\* C23, amended: apply_all runs its snapshot of the persistent transforms
\* first, in the order in which they were enqueued, and then the drained
\* one-shot transforms, in the order in which they were enqueued; a one-shot
\* enqueued before a persistent transform runs after it.
C23_RunOrder ==
    \A c \in Applies :
        LET ran == cq.history[c].ran
        IN  /\ \A i, j \in 1..Len(ran) :
                  i < j =>
                      /\ cq.history[ran[i]].kind = "oneshot" =>
                            cq.history[ran[j]].kind = "oneshot"
                      /\ cq.history[ran[i]].kind = cq.history[ran[j]].kind =>
                            ran[i] < ran[j]
            /\ cq.history[c].after =
                  RunAll([i \in 1..Len(ran) |-> [id |-> ran[i], f |-> cq.history[ran[i]].f]],
                         cq.history[c].before)
            /\ cq.history[c].ret = (ran # <<>>)

\* an apply_all that ran a persistent transform before a one-shot enqueued
\* earlier, the two not commuting on the image
C23_Witness ==
    \E c \in Applies :
        LET ran == cq.history[c].ran
        IN  /\ Len(ran) = 2
            /\ ran[2] < ran[1]
            /\ cq.history[ran[2]].kind = "oneshot"
            /\ cq.history[ran[1]].kind = "persistent"
            /\ cq.history[c].after
                   # RunFn(cq.history[ran[1]].f,
                           RunFn(cq.history[ran[2]].f, cq.history[c].before))

(***************************************************************************)
(* Properties of the router                                                *)
(***************************************************************************)
\* the calibration window is over: since the construction or the last
\* reset_calibration enough frames were begun, the last of them late enough
WindowOver ==
    /\ router.begun >= router.r.cfg_.calibration_frames_required
    /\ router.tlast - router.t0 >= router.r.cfg_.calibration_min_seconds

\* C24: decide returns Skip only if the router is calibrated, skip routing is
\* allowed and the last change reported for the tile is exactly 0; while the
\* calibration window is open no tile is routed Skip.
C24_SkipOnlyCalibrated ==
    /\ (router.last.kind = "decide" /\ router.last.route = "Skip") =>
          /\ router.r.calibrated_
          /\ WindowOver
          /\ router.r.cfg_.allow_skip_route
          /\ router.last.tile < Len(router.r.last_change_)
          /\ router.r.last_change_[router.last.tile + 1] = 0
    /\ ~WindowOver =>
          /\ ~router.r.calibrated_
          /\ \A tile \in 0..MaxTiles : decide(router.r, tile) # "Skip"

\* a tile routed Skip by a router that was reset and calibrated again
C24_Witness ==
    /\ router.last.kind = "decide"
    /\ router.last.route = "Skip"
    /\ router.resets >= 1
    /\ router.r.cfg_.calibration_frames_required >= 1

DifferingBytes ==
    {i \in 1..Min(Len(sigs.a.bgra), Len(sigs.b.bgra)) : sigs.a.bgra[i] # sigs.b.bgra[i]}

\* the two frames have one size
SameSize ==
    /\ sigs.a.width = sigs.b.width /\ sigs.a.height = sigs.b.height
    /\ Len(sigs.a.bgra) = Len(sigs.b.bgra)

\* C28: frames_identical implies equal signatures; frames that differ in a
\* byte or in size, or of which one is not valid, are not identical; a copy
\* of a frame has the signature of the frame and, the frame being valid, is
\* identical to it.
C28_SignatureSound ==
    sigs.called =>
        /\ sigs.identical => sigs.same
        /\ DifferingBytes # {} => ~sigs.identical
        /\ ~SameSize => ~sigs.identical
        /\ (~ok(sigs.a) \/ ~ok(sigs.b)) => ~sigs.identical
        /\ sigs.a = sigs.b => sigs.same
        /\ (sigs.a = sigs.b /\ ok(sigs.a)) => sigs.identical

\* two valid frames of one size that differ in one byte, compared
C28_Witness ==
    /\ sigs.called
    /\ ok(sigs.a) /\ ok(sigs.b)
    /\ SameSize
    /\ Cardinality(DifferingBytes) = 1
    /\ ~sigs.identical
    /\ ~sigs.same

\* a valid frame compared with its copy
C28_CopyCompared ==
    sigs.called /\ sigs.a = sigs.b /\ ok(sigs.a) /\ sigs.identical /\ sigs.same

(***************************************************************************)
(* Properties of the parallel engine                                       *)
(***************************************************************************)
\* render_next_frame has returned at least once and is not running
Rendered == engine.pc = "idle" /\ engine.renders >= 1

\* the tiles, counted from 1, and the tiles marked dirty in the mask returned
TileIds == 1..Len(engine.tiles_)
DirtyTiles == {ti \in TileIds : engine.out.tile_dirty_mask[ti] # 0}

\* the cells, counted from 0, of a set of tiles
CellsIn(tiles) == UNION {TileCells(engine.tiles_[ti], engine.width_) : ti \in tiles}

\* C26: after each render_next_frame every accumulator cell of a tile marked
\* dirty in the returned mask is cleared, and every cell of a tile not marked
\* dirty keeps the sums and the weight it had when the workers had finished.
C26_DirtyTilesCleared ==
    Rendered =>
        /\ \A i \in CellsIn(DirtyTiles) : engine.accum_[i + 1] = NewAccumulator
        /\ \A i \in CellsIn(TileIds \ DirtyTiles) :
              /\ engine.accum_[i + 1] = engine.joined_accum[i + 1]
              /\ engine.accum_[i + 1].w >= 1
        /\ CellsIn(DirtyTiles) \cap CellsIn(TileIds \ DirtyTiles) = {}
        /\ CellsIn(TileIds) = 0..(engine.width_ * engine.height_ - 1)

\* a frame with a dirty tile, cleared, next to a tile that is not dirty and
\* keeps sums that are not zero
C26_Witness ==
    /\ Rendered
    /\ DirtyTiles # {}
    /\ \E ti \in TileIds \ DirtyTiles :
          \E i \in TileCells(engine.tiles_[ti], engine.width_) :
              /\ engine.accum_[i + 1].w = engine.cfg_.max_accum_weight
              /\ engine.accum_[i + 1].r # Frac(0, 1)

\* two workers are about to touch one location, one of them writing it
DataRace == \E k \in DOMAIN engine.workers : Racing(k)

\* C27: during render_next_frame no two workers access one mutable location
\* with one of them writing, the router state touched by update_tile_change
\* and decide included.
C27_AsStated == ~DataRace

\* the part of C27 that the code keeps: the workers' steps never conflict on
\* the cells of accum_, curr_amplitude_ and prev_amplitude_ or on the slots
\* of local_dirty; every conflict is on last_change_ of the router
RaceOnlyInRouter ==
    \A k, j \in DOMAIN engine.workers :
        k # j =>
            \A a \in Accesses(engine.workers[k]), b \in Accesses(engine.workers[j]) :
                (a.loc = b.loc /\ (a.write \/ b.write)) => a.loc = <<"last_change_", 0>>

\* C29: in each render_next_frame the mask has one entry per tile and the
\* entry of tile i is set iff the router's decision for the tile is GPU, that
\* is iff the percentage of the tile's pixels whose amplitude changed exceeds
\* k_percent.
C29_AsStated ==
    Rendered =>
        /\ Len(engine.out.tile_dirty_mask) = Len(engine.tiles_)
        /\ \A ti \in TileIds :
              /\ engine.out.tile_dirty_mask[ti] \in {0, 1}
              /\ engine.out.tile_dirty_mask[ti] = 1 <=> engine.routes[ti] = "GPU"
              /\ engine.routes[ti] = "GPU" <=>
                    engine.percents[ti] > engine.cfg_.router.k_percent

\* what the code keeps of C29: the mask is as C29 states in every frame
\* during which no two workers raced
MaskWithoutRace == (Rendered /\ ~engine.raced) => C29_AsStated

\* C30: every tile is fetched by exactly one worker exactly once per frame,
\* render_next_frame returns only after all workers have finished, and
\* prev_amplitude_ and tile_dirty_ are written only after that.
C30_TilesOncePerFrame ==
    /\ \A ti \in TileIds :
          /\ engine.visits[ti] <= 1
          /\ Cardinality(engine.processed[ti]) = engine.visits[ti]
    /\ engine.pc = "workers" =>
          /\ engine.prev_amplitude_ = engine.begun_prev
          /\ engine.tile_dirty_ = engine.begun_dirty
          /\ ~engine.joined
    /\ Rendered =>
          /\ engine.joined
          /\ \A ti \in TileIds : engine.visits[ti] = 1
          /\ \A k \in DOMAIN engine.workers : engine.workers[k].pc = "done"
          /\ engine.prev_amplitude_ = engine.curr_amplitude_
          /\ engine.tile_dirty_ = engine.out.tile_dirty_mask

\* a frame of two tiles rendered by two workers, one tile each
C30_Witness ==
    /\ Rendered
    /\ Len(engine.tiles_) = 2
    /\ engine.processed[1] # engine.processed[2]
    /\ engine.prev_amplitude_ # engine.begun_prev

(***************************************************************************)
(* Properties of the tiler                                                 *)
(***************************************************************************)
\* the least number of pieces of size b that cover a length a
CeilDiv(a, b) == CHOOSE n \in 0..a : n * b >= a /\ (n = 0 \/ (n - 1) * b < a)

\* the tiles, counted from 1, that contain the pixel (x, y)
TilesWith(x, y) ==
    {i \in 1..Len(tiler.q.tiles_) :
        /\ tiler.q.tiles_[i].x0 <= x /\ x < tiler.q.tiles_[i].x1
        /\ tiler.q.tiles_[i].y0 <= y /\ y < tiler.q.tiles_[i].y1}

\* the tiler was configured for a frame that is not empty
Tiled == tiler.q.fw_ > 0 /\ tiler.q.fh_ > 0

DetectorHigh ==
    /\ det.last.compared
    /\ det.last.dec.diff_ratio.changed * 1000
          >= det.d.cfg_.wake_threshold * det.last.dec.diff_ratio.sampled
DetectorMid ==
    /\ det.last.compared
    /\ det.last.dec.diff_ratio.changed * 1000
          > det.d.cfg_.static_threshold * det.last.dec.diff_ratio.sampled
    /\ det.last.dec.diff_ratio.changed * 1000
          < det.d.cfg_.wake_threshold * det.last.dec.diff_ratio.sampled

QuickLane == <<cap_, buf_, head_, tail_>>

\* the step is a push that was turned away
RejectedPush == op' # op /\ op'.name = "push_invalid"

\* C33: push of a null or invalid image changes nothing: the deque, the byte
\* count, the latest time stamp, the state of the static run and the quick
\* lane stay as they are, and no image that is not ok ever enters the deque.
C33_InvalidPushNoOp ==
    [][/\ RejectedPush =>
             /\ frames_' = frames_
             /\ total_bytes_' = total_bytes_
             /\ latest_ts_' = latest_ts_
             /\ in_static_run_' = in_static_run_
             /\ static_since_ts_' = static_since_ts_
             /\ QuickLane' = QuickLane
             /\ pc_push' = "idle"
       /\ \A i \in 1..Len(frames_') :
             ~frames_'[i].img.null /\ ok(frames_'[i].img)]_vars

\* an invalid image was pushed to a pool that holds a static run and whose
\* quick lane holds a frame
C33_Witness ==
    /\ op.name = "push_invalid"
    /\ frames_ # <<>>
    /\ in_static_run_
    /\ head_ # tail_
    /\ latest_ts_ > 0

\* a handle to a frame as push appended it: one push, no extent in time
Snapshot1(r) ==
    /\ ~r.null
    /\ r.frame.run_len = 1
    /\ r.frame.t_end = r.frame.tsec

\* the handles in the ring that pop_quick has yet to read
InRing == {Slot(n) : n \in {m \in tail_..(head_ - 1) : ~(m = tail_ /\ pc_pop = "store")}}

\* the entry of the deque a handle was copied from, if it is still there
DequeEntry(r) == {i \in 1..Len(frames_) : frames_[i].index = r.frame.index}

\* C38: quick-lane entries are snapshots taken at publication.  A frame
\* published to the quick lane or obtained from pop_quick has run_len 1 and
\* t_end equal to its start; no step of the pool (coalescing, collapse,
\* eviction) changes a handle waiting in the ring, a handle already
\* accepted by the ring or a frame already handed to the consumer.
C38_QuickLaneSnapshots ==
    [][/\ \A i \in 1..Len(accepted') : Snapshot1(accepted'[i])
       /\ \A i \in 1..Len(delivered') : Snapshot1(delivered'[i])
       /\ \A s \in InRing' : Snapshot1(buf_'[s])
       /\ pc_pop' = "store" => Snapshot1(pop_out')
       /\ \A s \in InRing \cap InRing' : buf_'[s] = buf_[s]
       /\ \A i \in 1..Len(accepted) : accepted'[i] = accepted[i]
       /\ \A i \in 1..Len(delivered) : delivered'[i] = delivered[i]
       /\ \A i \in 1..Len(delivered') :
             i <= Len(accepted') /\ delivered'[i] = accepted'[i]]_vars

\* the consumer holds the snapshot of a frame whose deque entry has since
\* absorbed identical pushes, and the snapshot of a frame that has been
\* evicted; a third snapshot waits in the ring
C38_Witness ==
    /\ \E i \in 1..Len(delivered) : \E k \in DequeEntry(delivered[i]) :
          frames_[k].run_len > 1 /\ frames_[k].t_end > frames_[k].tsec
    /\ \E i \in 1..Len(delivered) : DequeEntry(delivered[i]) = {}
    /\ InRing # {}

RECURSIVE SumBytes(_)
\* the bytes of the image buffers of a sequence of frames
SumBytes(fr) ==
    IF fr = <<>> THEN 0
    ELSE (IF fr[1].img.null THEN 0 ELSE Len(fr[1].img.bgra)) + SumBytes(Tail(fr))

\* C39: byte accounting of the pool.  At every point of a push and after it
\* (append, coalescing, static collapse, eviction by time and by budget),
\* and whatever the knobs are set to in between, total_bytes_ is the sum of
\* the buffer sizes of the images in the deque; no subtraction takes it
\* below zero.
C39_BytesAccounted ==
    /\ total_bytes_ = SumBytes(frames_)
    /\ total_bytes_ >= 0

\* images of two sizes are in the deque after frames have been dropped
C39_Witness ==
    /\ Len(frames_) >= 2
    /\ \E i, j \in 1..Len(frames_) :
          Len(frames_[i].img.bgra) # Len(frames_[j].img.bgra)
    /\ next_index > Len(frames_)
    /\ pc_push = "idle"

(***************************************************************************)
(* Properties of the operation cache                                       *)
(***************************************************************************)
RECURSIVE SumEntries(_)
\* the bytes of the entries stored
SumEntries(e) ==
    IF Stored(e) = {} THEN 0
    ELSE LET k == CHOOSE k \in Stored(e) : TRUE
         IN  e[k].bytes + SumEntries(erase(e, k))

\* a put has just returned
AfterPut == cache.last.kind = "put"

\* C40: byte accounting of the cache.  After any sequence of puts and the
\* evictions they trigger, used_bytes_ is the sum of the bytes of the
\* entries stored, and after a put either used_bytes_ <= max_bytes_ or the
\* cache is empty.
C40_AsStated ==
    /\ cache.c.used_bytes_ = SumEntries(cache.c.entries_)
    /\ AfterPut => (cache.c.used_bytes_ <= cache.c.max_bytes_ \/ Stored(cache.c.entries_) = {})

\* what the code keeps: used_bytes_ is never below the bytes stored, the two
\* are equal as long as no put has replaced an entry, and a put leaves the
\* cache within its limit or empty
UsedNeverUnder ==
    /\ cache.c.used_bytes_ >= SumEntries(cache.c.entries_)
    /\ AfterPut => (cache.c.used_bytes_ <= cache.c.max_bytes_ \/ Stored(cache.c.entries_) = {})

\* a put replaces an entry
C40_Overwritten == AfterPut /\ cache.last.overwrote

(***************************************************************************)
(* Properties of the shared correction queue                               *)
(***************************************************************************)
\* the apply_all calls that ran transform id
AppliesOf(id) == {r[1] : r \in {x \in mq.ran : x[2] = id}}

\* C34: the fast-path flag under concurrency.  Whenever no thread holds the
\* mutex, dirty_ == false implies that both lists are empty; no fast path
\* of apply_all returns while a transform whose enqueue has returned is in
\* the queue; and no one-shot is run by two apply_all calls.
C34_DirtySound ==
    /\ (mq.mu_ = NoThread /\ ~mq.dirty_) => (mq.persistent_ = << >> /\ mq.oneshot_ = << >>)
    /\ mq.passed_over = {}
    /\ \A t \in QueueThreads : \A i \in 1..Len(mq.th[t].local_oneshot) :
          /\ mq.th[t].local_oneshot[i] \notin Ids(mq.oneshot_)
          /\ \A u \in QueueThreads \ {t} :
                mq.th[t].local_oneshot[i] \notin Ids(mq.th[u].local_oneshot)
          /\ AppliesOf(mq.th[t].local_oneshot[i]) = {}
    /\ \A id \in mq.oneshots : Cardinality(AppliesOf(id)) <= 1

\* two threads are inside apply_all at once, past the mutex: both are about
\* to run the persistent transform, and only one of them holds the one-shot
C34_Witness ==
    \E t, u \in QueueThreads :
        /\ mq.th[t].pc = "app_run" /\ mq.th[u].pc = "app_run"
        /\ mq.th[t].local_oneshot # << >>
        /\ mq.th[u].local_oneshot = << >>
        /\ mq.th[t].local_persist # << >>
        /\ mq.th[u].local_persist = mq.th[t].local_persist

(***************************************************************************)
(* Properties of the aggregator                                            *)
(***************************************************************************)
\* the consumer is inside wait_consume
InWaitConsume == agg.cons.kind = "wait" /\ agg.cons.pc # "idle"

\* C35: the aggregator loses no signal.  Every bit signalled and not yet
\* returned by a consume call is in the mask, so that the next consume
\* returns it together with the others; wait_consume never returns 0; and a
\* wait_consume that is under way when the mask is not 0 returns.
C35_NoSignalLost ==
    /\ [](agg.owed \subseteq agg.mask_)
    /\ [](agg.cons.pc = "idle" /\ agg.cons.kind = "wait" => agg.cons.ret # {})
    /\ \A n \in 1..MaxConsumes :
          (InWaitConsume /\ agg.consumes = n /\ agg.mask_ # {}) ~> (agg.returned >= n)

\* the consumer is blocked while two bits are set and the notify of the
\* first producer is still to come
C35_Witness ==
    /\ agg.cons.pc = "blocked"
    /\ Cardinality(agg.mask_) = 2
    /\ \E p \in Producers : agg.prod[p].pc \in {"lock", "notify"}

(***************************************************************************)
(* Properties of parallel_map                                              *)
(***************************************************************************)
\* the collecting thread waits for a signal that no worker is left to send
Hung ==
    /\ pm.pc = "wait"
    /\ pm.mask_ = {}
    /\ \A wid \in DOMAIN pm.w : pm.w[wid].pc = "done"

\* the values reported to on_progress never decrease
ProgressMonotone ==
    \A i, j \in 1..Len(pm.progress) : i <= j => pm.progress[i] <= pm.progress[j]

\* what a call that has returned leaves: every item mapped once and in its
\* place, the last report of progress being N
ReturnedRight ==
    pm.pc = "returned" =>
        /\ DOMAIN pm.out = 0..(pm.N - 1)
        /\ \A i \in 0..(pm.N - 1) : pm.out[i] = map_fn(data(i)) /\ pm.mapped[i] = 1
        /\ pm.N > 0 => (pm.progress # << >> /\ pm.progress[Len(pm.progress)] = pm.N)

\* C36: parallel_map terminates and preserves the order.  For any size,
\* thread count and chunk size the call does not hang; when it has
\* returned, out[i] == map_fn(data[i]) for every i, each item has been
\* mapped exactly once, and the progress reported never decreases and ends
\* at N.
C36_AsStated ==
    /\ ~Hung
    /\ \A i \in DOMAIN pm.mapped : pm.mapped[i] <= 1
    /\ ProgressMonotone
    /\ ReturnedRight

\* N + chunk - 1 does not fit size_t
Wrapped == pm.pc # "idle" /\ pm.chunk > 0 /\ pm.N + pm.chunk - 1 >= SizeMod

\* what holds of the code: the same, for the chunk sizes whose sum with N
\* fits size_t; and with them every call returns
MapRightUnlessWrapped ==
    /\ [](~Wrapped => ~Hung)
    /\ [](\A i \in DOMAIN pm.mapped : pm.mapped[i] <= 1)
    /\ []ProgressMonotone
    /\ []ReturnedRight
    /\ (pm.pc # "idle" /\ ~Wrapped) ~> (pm.pc = "returned")
    /\ [](Wrapped => pm.pc # "returned")

(***************************************************************************)
(* Properties of the pool of workers                                       *)
(***************************************************************************)
\* the worker threads that have been started and have not returned
LiveWorkers == {w \in 1..MaxSpawned : wp.wk[w].pc \notin {"none", "exited"}}

\* worker w cannot take a step
WorkerStuck(w) ==
    \/ wp.wk[w].pc \in {"none", "exited"}
    \/ wp.wk[w].pc = "waiting" /\ ~wake_pred(wp)
    \/ wp.wk[w].pc = "get" /\ ~wp.task[wp.wk[w].child].done

\* a submit waits for a task that no worker will run: the task is queued,
\* no worker can move, a worker waits inside a task for a submit of its
\* own, so that no join of shutdown can end, and no submit will start
\* another worker
Starved ==
    /\ wp.tasks_ # << >>
    /\ \A w \in 1..MaxSpawned : WorkerStuck(w)
    /\ \E i \in 1..Len(wp.workers_) : wp.wk[wp.workers_[i]].pc = "get"
    /\ ~has_room(wp)

\* C37: the pool of workers.  For any interleaving of submit calls, from
\* outside and from inside a running task, and shutdown: the worker threads
\* never exceed max_workers, every task is run exactly once, and every
\* submit returns its task's result: no data race ends the program and no
\* submit waits for a task that will not be run.
C37_AsStated ==
    /\ Cardinality(LiveWorkers) <= wp.max_workers_
    /\ \A j \in 1..MaxTasks : wp.task[j].runs <= 1
    /\ \A j \in 1..MaxTasks : wp.task[j].returned => wp.task[j].runs = 1
    /\ ~wp.crashed
    /\ ~Starved

\* what holds of the code: the bound on the workers and no task run twice,
\* and no submit returns before its task has run
WorkersBounded ==
    /\ Cardinality(LiveWorkers) <= wp.max_workers_
    /\ \A j \in 1..MaxTasks : wp.task[j].runs <= 1
    /\ \A j \in 1..MaxTasks : wp.task[j].returned => wp.task[j].runs = 1 /\ wp.task[j].done

====
